---------------------------- MODULE Spec2Model ----------------------------
(***************************************************************************)
(* Kaiten webhook bot: ingestion of card moves into a dated store with     *)
(* atomic persistence and retention pruning (app.py), the daily metric     *)
(* engine (app.py), and the monthly roll-up with its guarded scheduler     *)
(* loop (monthly_reports.py).                                              *)
(*                                                                         *)
(* Dates are ordinals counted from 1 January of BaseYear; a date key is    *)
(* the "YYYY-MM-DD" string strftime produces.  A timestamp is the pair     *)
(* (date, instant): isoformat() strings of one fixed UTC offset compare    *)
(* as the instants do.  JSON values of a webhook body are tagged records.  *)
(* Of a move record the model keeps card_id, person_type,                  *)
(* submission_method, from_column_id, to_column_id and timestamp; title,   *)
(* user and the column display names take part in no operation modelled.   *)
(* The Russian labels of the source are written in Latin transliteration   *)
(* ("Fizicheskoe litso", "EPGU", "MFC", "Lichnyj priyom", "RPGU",          *)
(* "Ne ukazano", "Neizvestno"), which keeps every substring relation the   *)
(* code tests ("Fiz", "EPGU", "MFC", "Lich", "RPGU").                      *)
(***************************************************************************)
EXTENDS Integers, Sequences, FiniteSets, TLC

VARIABLES
    today,      \* the date now_nsk().date() returns (ordinal)
    tnow,       \* the instant within the run: grows with every stored move
    retention,  \* DATA_RETENTION_DAYS
    holidays,   \* HOLIDAYS, a set of date keys
    store,      \* app.store: date key -> [moves |-> sequence of move records]
    dataFile,   \* DATA_FILE: "missing" or the JSON object written by save_store
    aggrFile,   \* monthly_aggregates.json: month key -> StatsTable
    stateFile,  \* monthly_report_state.json: "last_sent" -> month key
    response,   \* the last answer of the ingestion endpoint
    sent,       \* what was handed to the notification sink, in order
    lastOp,     \* the operation that produced this state, with its inputs
    pin,        \* the arguments of the pure function under check
    pout        \* its result

vars == <<today, tnow, retention, holidays, store, dataFile, aggrFile,
          stateFile, response, sent, lastOp, pin, pout>>

(***************************************************************************)
(* Bounds of the model.                                                    *)
(***************************************************************************)
MaxMoves == 2
MaxDays == 2
MaxRetention == 1

(***************************************************************************)
(* Calendar: datetime.date over the years of the model.                    *)
(***************************************************************************)
Years == 2025 .. 2026

BaseYear ==
    CHOOSE y \in Years : \A z \in Years : y <= z

IsLeap(y) ==
    (y % 4 = 0 /\ y % 100 # 0) \/ y % 400 = 0

DaysInMonth(y, m) ==
    IF m = 2 THEN (IF IsLeap(y) THEN 29 ELSE 28)
    ELSE IF m \in {4, 6, 9, 11} THEN 30 ELSE 31

DaysInYear(y) ==
    IF IsLeap(y) THEN 366 ELSE 365

RECURSIVE DaysBeforeYear(_)
DaysBeforeYear(y) ==
    IF y <= BaseYear THEN 0 ELSE DaysBeforeYear(y - 1) + DaysInYear(y - 1)

RECURSIVE DaysBeforeMonth(_, _)
DaysBeforeMonth(y, m) ==
    IF m <= 1 THEN 0 ELSE DaysBeforeMonth(y, m - 1) + DaysInMonth(y, m - 1)

\* date(y, m, d)
MkDate(y, m, d) ==
    DaysBeforeYear(y) + DaysBeforeMonth(y, m) + (d - 1)

Ordinals == 0 .. (DaysBeforeYear(BaseYear + 2) - 1)

RECURSIVE YearFrom(_, _)
YearFrom(y, o) ==
    IF o < DaysInYear(y) THEN y ELSE YearFrom(y + 1, o - DaysInYear(y))

RECURSIVE MonthFrom(_, _, _)
MonthFrom(y, m, r) ==
    IF r < DaysInMonth(y, m) THEN m ELSE MonthFrom(y, m + 1, r - DaysInMonth(y, m))

\* d.year, d.month, d.day
YearOf(o) == YearFrom(BaseYear, o)
MonthOf(o) == MonthFrom(YearOf(o), 1, o - DaysBeforeYear(YearOf(o)))
DayOf(o) == o - MkDate(YearOf(o), MonthOf(o), 1) + 1

\* date.weekday(): Monday is 0; 1 January 2025 is a Wednesday
Weekday(o) ==
    (o + 2) % 7

Pad2(n) ==
    IF n < 10 THEN "0" \o ToString(n) ELSE ToString(n)

\* d.strftime("%Y-%m-%d")
strftime_ymd(o) ==
    ToString(YearOf(o)) \o "-" \o Pad2(MonthOf(o)) \o "-" \o Pad2(DayOf(o))

\* strftime_ymd, tabulated over the dates of the model's years
DateStrings ==
    [o \in Ordinals |-> strftime_ymd(o)]

date_to_str(o) ==
    IF o \in Ordinals THEN DateStrings[o] ELSE strftime_ymd(o)

Digits == {"0", "1", "2", "3", "4", "5", "6", "7", "8", "9"}

DigitVal(c) ==
    CHOOSE v \in 0 .. 9 : ToString(v) = c

\* the characters i..j of s are digits
AllDigits(s, i, j) ==
    \A k \in i .. j : SubSeq(s, k, k) \in Digits

RECURSIVE NumberAt(_, _, _)
\* the number written by the characters i..j of s
NumberAt(s, i, j) ==
    IF j < i THEN 0 ELSE 10 * NumberAt(s, i, j - 1) + DigitVal(SubSeq(s, j, j))

\* datetime.strptime(s, "%Y-%m-%d").date() succeeds: the zero-padded form
\* of a date of the model's years
StrpOk(s) ==
    /\ Len(s) = 10
    /\ SubSeq(s, 5, 5) = "-" /\ SubSeq(s, 8, 8) = "-"
    /\ AllDigits(s, 1, 4) /\ AllDigits(s, 6, 7) /\ AllDigits(s, 9, 10)
    /\ NumberAt(s, 1, 4) \in Years
    /\ NumberAt(s, 6, 7) \in 1 .. 12
    /\ NumberAt(s, 9, 10) \in 1 .. DaysInMonth(NumberAt(s, 1, 4), NumberAt(s, 6, 7))

\* datetime.strptime(s, "%Y-%m-%d").date()
StrpDate(s) ==
    MkDate(NumberAt(s, 1, 4), NumberAt(s, 6, 7), NumberAt(s, 9, 10))

(***************************************************************************)
(* JSON values of a webhook body, and Python's truth value, str() and      *)
(* int() of them.                                                          *)
(***************************************************************************)
Absent == [t |-> "absent", i |-> 0, s |-> ""]
Null == [t |-> "null", i |-> 0, s |-> ""]
JInt(n) == [t |-> "int", i |-> n, s |-> ""]
JStr(x) == [t |-> "str", i |-> 0, s |-> x]
\* a list holding the single number n
JList1(n) == [t |-> "list", i |-> n, s |-> ""]

\* bool(v)
Truthy(v) ==
    \/ v.t = "int" /\ v.i # 0
    \/ v.t = "str" /\ v.s # ""
    \/ v.t = "list"

\* "k" in d and d["k"]
Has(v) ==
    v.t # "absent" /\ Truthy(v)

\* str(v) of a number or a string
PyStr(v) ==
    IF v.t = "int" THEN ToString(v.i) ELSE v.s

\* the strings int() accepts, with their values
NumericStrings ==
    [s \in {"5474978", "5485743"} |-> IF s = "5474978" THEN 5474978 ELSE 5485743]

\* int(v) raises ValueError or TypeError
IntFails(v) ==
    \/ v.t \in {"null", "list", "absent"}
    \/ v.t = "str" /\ v.s \notin DOMAIN NumericStrings

\* int(v)
PyInt(v) ==
    IF v.t = "int" THEN v.i ELSE NumericStrings[v.s]

(***************************************************************************)
(* Card properties (app.py 94-184).                                        *)
(***************************************************************************)
PERSON_TYPE_VALUES ==
    [c \in {93406, 93407} |->
        IF c = 93406 THEN "Fizicheskoe litso" ELSE "Yuridicheskoe litso"]

SUBMISSION_METHOD_VALUES ==
    [c \in {93413, 93414, 93415} |->
        IF c = 93413 THEN "EPGU" ELSE IF c = 93414 THEN "MFC" ELSE "Lichnyj priyom"]

\* the decoding shared by decode_person_type and decode_submission_method
DecodeWith(table, value) ==
    LET v == IF value.t = "list" THEN JInt(value.i) ELSE value
    IN  IF ~Truthy(v) THEN "Ne ukazano"
        ELSE IF IntFails(v) THEN "Neizvestno"
        ELSE IF PyInt(v) \in DOMAIN table THEN table[PyInt(v)]
        ELSE "ID:" \o ToString(PyInt(v))

decode_person_type(value) ==
    DecodeWith(PERSON_TYPE_VALUES, value)

decode_submission_method(value) ==
    DecodeWith(SUBMISSION_METHOD_VALUES, value)

\* properties is reduced to its two fields id_270916 and id_270924
decode_card_properties(n) ==
    [person_type |->
        IF n.ptype.t # "absent" THEN decode_person_type(n.ptype) ELSE "Ne ukazano",
     submission_method |->
        IF n.subm.t # "absent" THEN decode_submission_method(n.subm) ELSE "Ne ukazano"]

(***************************************************************************)
(* Identity of the card of a notification (app.py 375-416).                *)
(***************************************************************************)
NoKey == "<None>"

\* extract_card_key trying the card object before the event's own id
extract_card_key_card_first(n) ==
    IF Has(n.old_id) THEN PyStr(n.old_id)
    ELSE IF Has(n.old_uid) THEN "uid_" \o PyStr(n.old_uid)
    ELSE IF Has(n.card_id) THEN PyStr(n.card_id)
    ELSE IF Has(n.card_obj_id) THEN PyStr(n.card_obj_id)
    ELSE IF Has(n.card_obj_uid) THEN PyStr(n.card_obj_uid)
    ELSE IF Has(n.id) THEN PyStr(n.id)
    ELSE IF Has(n.ch_card_id) THEN PyStr(n.ch_card_id)
    ELSE NoKey

extract_card_key(n) ==
    IF Has(n.old_id) THEN PyStr(n.old_id)
    ELSE IF Has(n.old_uid) THEN "uid_" \o PyStr(n.old_uid)
    ELSE IF Has(n.card_id) THEN PyStr(n.card_id)
    ELSE IF Has(n.id) THEN PyStr(n.id)
    ELSE IF Has(n.ch_card_id) THEN PyStr(n.ch_card_id)
    ELSE IF Has(n.card_obj_id) THEN PyStr(n.card_obj_id)
    ELSE IF Has(n.card_obj_uid) THEN PyStr(n.card_obj_uid)
    ELSE NoKey


(***************************************************************************)
(* The move store and its file (app.py 309-369).  The file is the JSON     *)
(* object json.dump writes: a set of members (key, value), each value      *)
(* with the shape load_store validates.                                    *)
(***************************************************************************)
EmptyStore == <<>>

MissingFile == [kind |-> "missing", obj |-> {}, tmp |-> FALSE]

\* json.dump(store_data): every day is an object whose "moves" is a list
JsonDump(st) ==
    {<<k, [isdict |-> TRUE, islist |-> TRUE, moves |-> st[k].moves]>> : k \in DOMAIN st}

\* day_data.get("moves", []) of a day object; an object without the key is a
\* record without the moves field
MovesOrDefault(day_data) ==
    IF "moves" \in DOMAIN day_data THEN day_data.moves ELSE <<>>

\* isinstance(day_data, dict) and isinstance(moves, list)
LoadsEntry(day_data) ==
    /\ day_data.isdict
    /\ "moves" \in DOMAIN day_data => day_data.islist

\* a loader that gives up the whole file at the first malformed entry
load_store_strict(file) ==
    IF file.kind # "json" \/ \E m \in file.obj : ~LoadsEntry(m[2]) THEN EmptyStore
    ELSE [k \in {m[1] : m \in file.obj} |->
             [moves |-> MovesOrDefault((CHOOSE m \in file.obj : m[1] = k)[2])]]

\* kind is "missing", "json" (the text parses to an object, obj), "json_list"
\* (it parses to another JSON value) or "truncated" (it does not parse)
load_store(file) ==
    IF file.kind # "json" THEN EmptyStore
    ELSE LET ok == {m \in file.obj : LoadsEntry(m[2])}
         IN  [k \in {m[1] : m \in ok} |->
                 [moves |-> MovesOrDefault((CHOOSE m \in ok : m[1] = k)[2])]]

\* _prune_old_dates with "d <= cutoff"
PruneOldDates_inclusive(st, nowDate, R) ==
    [k \in {x \in DOMAIN st : ~(StrpOk(x) /\ StrpDate(x) <= nowDate - R)} |-> st[k]]

\* the store after _prune_old_dates, run at date nowDate with R retention days
PruneOldDates(st, nowDate, R) ==
    LET cutoff == nowDate - R
        gone == {k \in DOMAIN st : StrpOk(k) /\ StrpDate(k) < cutoff}
    IN  [k \in DOMAIN st \ gone |-> st[k]]

\* The ways json.dump / tmp.replace end: "none" (both succeed), "write"
\* (writing the temporary file raises), "replace" (the rename raises), and
\* "unlink" (one of the two raises and so does tmp.unlink(), whose exception
\* is swallowed).
SaveFailures == {"none", "write", "replace", "unlink"}

\* the files after the except branch of save_store
AfterFailedSave(file, fail) ==
    [file EXCEPT !.tmp = (fail = "unlink")]

\* save_store with the dump taken before the prune
save_store_dump_first(st, file, nowDate, R, fail) ==
    [store |-> PruneOldDates(st, nowDate, R),
     file |-> IF fail = "none"
              THEN [kind |-> "json", obj |-> JsonDump(st), tmp |-> FALSE]
              ELSE AfterFailedSave(file, fail)]

\* save_store writing the durable file in place, without a temporary file
save_store_in_place(st, file, nowDate, R, fail) ==
    LET pruned == PruneOldDates(st, nowDate, R)
    IN  [store |-> pruned,
         file |-> IF fail = "none"
                  THEN [kind |-> "json", obj |-> JsonDump(pruned), tmp |-> FALSE]
                  ELSE [kind |-> "truncated", obj |-> {}, tmp |-> FALSE]]

\* save_store merging the dump into the days the file already holds
save_store_merging(st, file, nowDate, R, fail) ==
    LET pruned == PruneOldDates(st, nowDate, R)
    IN  [store |-> pruned,
         file |-> IF fail = "none"
                  THEN [kind |-> "json",
                        obj |-> JsonDump(pruned)
                                  \cup {m \in file.obj : m[1] \notin DOMAIN pruned},
                        tmp |-> FALSE]
                  ELSE AfterFailedSave(file, fail)]

\* save_store: the pruned store, and the file it leaves
save_store(st, file, nowDate, R, fail) ==
    LET pruned == PruneOldDates(st, nowDate, R)
    IN  [store |-> pruned,
         file |-> IF fail = "none"
                  THEN [kind |-> "json", obj |-> JsonDump(pruned), tmp |-> FALSE]
                  ELSE AfterFailedSave(file, fail)]

(***************************************************************************)
(* The ingestion endpoint (app.py 462-555).                                *)
(***************************************************************************)
Ack == "ok"
ServerError == "500"

\* int(old_column_id) if old_column_id else None; None is written 0
FromColumn(n) ==
    IF Truthy(n.old_col) THEN PyInt(n.old_col) ELSE 0

move_record(n, d, t) ==
    [card_id |-> extract_card_key(n),
     person_type |-> decode_card_properties(n).person_type,
     submission_method |-> decode_card_properties(n).submission_method,
     from_column_id |-> FromColumn(n),
     to_column_id |-> PyInt(n.new_col),
     timestamp |-> <<d, t>>]

\* the day's bucket replaced by one holding only the new record
Append_move_replacing(st, key, rec) ==
    [k \in DOMAIN st \cup {key} |-> IF k = key THEN [moves |-> <<rec>>] ELSE st[k]]

\* store.setdefault(date_key, {"moves": []})["moves"].append(rec)
Append_move(st, key, rec) ==
    [k \in DOMAIN st \cup {key} |->
        IF k = key
        THEN [moves |-> Append(IF key \in DOMAIN st THEN st[key].moves ELSE <<>>, rec)]
        ELSE st[k]]

\* Disposition without the return on "card_id is None"
Disposition_keeps_unidentified(n) ==
    IF ~n.parsed THEN "raise"
    ELSE IF n.event # "card:update" THEN "drop"
    ELSE IF n.new_col.t = "absent" THEN "drop"
    ELSE IF IntFails(n.new_col) \/ (Truthy(n.old_col) /\ IntFails(n.old_col)) THEN "drop"
    ELSE "store"

\* Disposition without the filter on the event kind
Disposition_any_event(n) ==
    IF ~n.parsed THEN "raise"
    ELSE IF n.new_col.t = "absent" THEN "drop"
    ELSE IF extract_card_key(n) = NoKey THEN "drop"
    ELSE IF IntFails(n.new_col) \/ (Truthy(n.old_col) /\ IntFails(n.old_col)) THEN "drop"
    ELSE "store"

\* what the handler does with notification n: "raise" (request.json()
\* raises), "drop" (an early return) or "store"
Disposition(n) ==
    IF ~n.parsed THEN "raise"
    ELSE IF n.event # "card:update" THEN "drop"
    ELSE IF n.new_col.t = "absent" THEN "drop"
    ELSE IF extract_card_key(n) = NoKey THEN "drop"
    ELSE IF IntFails(n.new_col) \/ (Truthy(n.old_col) /\ IntFails(n.old_col)) THEN "drop"
    ELSE "store"

\* HandlerResponse of a save_store that lets its failures escape
HandlerResponse_save_raises(n, fail) ==
    IF Disposition(n) = "raise" \/ (Disposition(n) = "store" /\ fail # "none")
    THEN ServerError ELSE Ack

\* the answer of the endpoint: every return is {"ok": True}, and save_store
\* swallows its own failures
HandlerResponse(n, fail) ==
    IF Disposition(n) = "raise" THEN ServerError ELSE Ack

\* a handler that files the record under the date the event carries
kaiten_webhook_event_date(n, st, file, d, t, pruneDate, R, fail) ==
    IF Disposition(n) = "store"
    THEN LET saved == save_store(Append_move(st, date_to_str(n.updated[1]),
                                             move_record(n, d, t)),
                                 file, pruneDate, R, fail)
         IN  [response |-> HandlerResponse(n, fail), store |-> saved.store, file |-> saved.file]
    ELSE [response |-> HandlerResponse(n, fail), store |-> st, file |-> file]

\* a handler that stores the destination as it came when int() fails on it
kaiten_webhook_keeps_raw(n, st, file, d, t, pruneDate, R, fail) ==
    IF Disposition(n) = "store"
    THEN LET saved == save_store(Append_move(st, date_to_str(d), move_record(n, d, t)),
                                 file, pruneDate, R, fail)
         IN  [response |-> HandlerResponse(n, fail), store |-> saved.store, file |-> saved.file]
    ELSE IF n.parsed /\ n.event = "card:update" /\ n.new_col.t # "absent"
            /\ extract_card_key(n) # NoKey /\ IntFails(n.new_col)
    THEN LET rec == [move_record([n EXCEPT !.new_col = JInt(0), !.old_col = Absent], d, t)
                        EXCEPT !.to_column_id = n.new_col.s]
             saved == save_store(Append_move(st, date_to_str(d), rec), file, pruneDate, R, fail)
         IN  [response |-> HandlerResponse(n, fail), store |-> saved.store, file |-> saved.file]
    ELSE [response |-> HandlerResponse(n, fail), store |-> st, file |-> file]

\* The handler on notification n, at date d and instant t; pruneDate is the
\* date _prune_old_dates reads inside save_store.
kaiten_webhook(n, st, file, d, t, pruneDate, R, fail) ==
    IF Disposition(n) = "store"
    THEN LET saved == save_store(Append_move(st, date_to_str(d), move_record(n, d, t)),
                                 file, pruneDate, R, fail)
         IN  [response |-> HandlerResponse(n, fail), store |-> saved.store, file |-> saved.file]
    ELSE [response |-> HandlerResponse(n, fail), store |-> st, file |-> file]


(***************************************************************************)
(* Notifications.                                                          *)
(***************************************************************************)
Notif(event, new_col, old_col, old_id, ptype, subm) ==
    [parsed |-> TRUE, event |-> event, new_col |-> new_col, old_col |-> old_col,
     old_id |-> old_id, old_uid |-> Absent, card_id |-> Absent, id |-> Absent,
     ch_card_id |-> Absent, card_obj_id |-> Absent, card_obj_uid |-> Absent,
     ptype |-> ptype, subm |-> subm]

\* a body request.json() cannot parse
Unparsable ==
    [Notif("", Absent, Absent, Absent, Absent, Absent) EXCEPT !.parsed = FALSE]

\* card 101: a physical person, submitted through EPGU
Move101(to, from) ==
    Notif("card:update", to, from, JInt(101), JList1(93406), JList1(93413))

\* card 102: a legal person, submitted in person
Move102(to, from) ==
    Notif("card:update", to, from, JInt(102), JInt(93407), JInt(93415))

StoredInputs ==
    { Move101(JInt(5485743), JInt(5474973)),
      Move102(JInt(5577124), Absent),
      Move102(JStr("5474978"), JInt(5577161)) }

DroppedInputs ==
    { Unparsable,
      [Move101(JInt(5485743), JInt(5474973)) EXCEPT !.event = "card:create"],
      Move101(Absent, JInt(5474973)),
      [Move101(JInt(5485743), JInt(5474973)) EXCEPT !.old_id = Null],
      Move102(JStr("abc"), JInt(5474973)),
      Move102(Null, Absent) }

Notifications ==
    StoredInputs \cup DroppedInputs

(***************************************************************************)
(* The ingestion system: webhook calls, the clock, restarts.               *)
(***************************************************************************)
StartDay == MkDate(2025, 12, 30)

NoPure == <<>>

Init ==
    /\ today = StartDay
    /\ tnow = 0
    /\ retention \in 0 .. MaxRetention
    /\ holidays = {}
    /\ store = EmptyStore
    /\ dataFile = MissingFile
    /\ aggrFile = <<>>
    /\ stateFile = <<>>
    /\ response = "none"
    /\ sent = <<>>
    /\ lastOp = [op |-> "init"]
    /\ pin = NoPure
    /\ pout = NoPure

\* One call of the endpoint.  The clock may pass midnight between the
\* handler's own clock read and the one inside save_store (cross = 1).
Ingest ==
    \E n \in Notifications, cross \in {0, 1}, fail \in SaveFailures :
        /\ tnow < MaxMoves
        /\ today + cross <= StartDay + MaxDays
        /\ Disposition(n) # "store" => (cross = 0 /\ fail = "none")
        /\ \E r \in {kaiten_webhook(n, store, dataFile, today, tnow, today + cross,
                                     retention, fail)} :
               /\ store' = r.store
               /\ dataFile' = r.file
               /\ response' = r.response
        /\ today' = today + cross
        /\ tnow' = IF Disposition(n) = "store" THEN tnow + 1 ELSE tnow
        /\ lastOp' = [op |-> "webhook", req |-> n, fail |-> fail,
                      prev |-> store, day |-> today, instant |-> tnow,
                      pruneDate |-> today + cross]
        /\ UNCHANGED <<retention, holidays, aggrFile, stateFile, sent, pin, pout>>

\* midnight
Tick ==
    /\ today < StartDay + MaxDays
    /\ today' = today + 1
    /\ lastOp' = [op |-> "tick"]
    /\ UNCHANGED <<tnow, retention, holidays, store, dataFile, aggrFile, stateFile,
                   response, sent, pin, pout>>

\* startup_event: the process starts again and loads the store from the file
Restart ==
    /\ store' = load_store(dataFile)
    /\ response' = "none"
    /\ lastOp' = [op |-> "restart"]
    /\ UNCHANGED <<today, tnow, retention, holidays, dataFile, aggrFile, stateFile,
                   sent, pin, pout>>

Next ==
    \/ Ingest
    \/ Tick
    \/ Restart

Spec == Init /\ [][Next]_vars


(***************************************************************************)
(* Claims about the ingestion system.                                      *)
(***************************************************************************)
WebhookStep == lastOp.op = "webhook"

\* the notification is of another kind, or changes no column
NotAMove(n) ==
    n.parsed /\ (n.event # "card:update" \/ n.new_col.t = "absent")

\* the store handed to save_store by the last webhook call
HandedToSave ==
    Append_move(lastOp.prev, date_to_str(lastOp.day),
                move_record(lastOp.req, lastOp.day, lastOp.instant))

\* C3: a notification of another kind than card:update, or one whose
\* change-set has no column_id, changes neither the in-memory store nor any
\* persisted file, and the endpoint answers success.
C3_NotAMoveChangesNothing ==
    [][(lastOp'.op = "webhook" /\ NotAMove(lastOp'.req))
         => /\ store' = store
            /\ dataFile' = dataFile
            /\ aggrFile' = aggrFile
            /\ stateFile' = stateFile
            /\ response' = Ack]_vars

C3_Witness ==
    /\ WebhookStep
    /\ lastOp.req.event = "card:update"
    /\ lastOp.req.new_col.t = "absent"
    /\ lastOp.req.parsed
    /\ store # EmptyStore
    /\ dataFile.kind = "json"
    /\ response = Ack

C5_UnparsableIsAcknowledged ==
    (WebhookStep /\ ~lastOp.req.parsed) => (response = Ack /\ store = lastOp.prev)


\* the last webhook call stored a move and its save succeeded
SavedOk ==
    WebhookStep /\ Disposition(lastOp.req) = "store" /\ lastOp.fail = "none"

\* key k is inside the retention window at the date of the prune
Retained(k, pruneDate, R) ==
    ~(StrpOk(k) /\ StrpDate(k) < pruneDate - R)

\* C7: after save_store, load_store yields the date keys of the store that
\* was saved, each with the same records, except the keys outside the
\* retention window, which are absent.
C7_SaveThenLoad ==
    SavedOk =>
        LET loaded == load_store(dataFile)
            kept == {k \in DOMAIN HandedToSave : Retained(k, lastOp.pruneDate, retention)}
        IN  /\ DOMAIN loaded = kept
            /\ \A k \in kept : loaded[k].moves = HandedToSave[k].moves

C7_Witness ==
    /\ SavedOk
    /\ \E k \in DOMAIN HandedToSave : ~Retained(k, lastOp.pruneDate, retention)
    /\ \E k \in DOMAIN load_store(dataFile) : Len(load_store(dataFile)[k].moves) >= 1

\* Webhook calls that reach save_store, the clock and restarts.
PersistIngest ==
    /\ Ingest
    /\ lastOp'.req \in {Move101(JInt(5485743), JInt(5474973)),
                        Move102(JInt(5577124), Absent)}

SpecPersist == Init /\ [][PersistIngest \/ Tick \/ Restart]_vars

\* the last webhook call stored a move and its save failed
SaveFailed ==
    WebhookStep /\ Disposition(lastOp.req) = "store" /\ lastOp.fail # "none"

\* the record appended by the last webhook call is the last one of its day
KeepsAppended(st) ==
    LET k == date_to_str(lastOp.day)
    IN  /\ k \in DOMAIN st
        /\ st[k].moves # <<>>
        /\ st[k].moves[Len(st[k].moves)] =
               move_record(lastOp.req, lastOp.day, lastOp.instant)

REPORT_ORDER ==
    <<"primary_intake", "rso_requests_done", "gpzu_prepared", "refusals_prepared",
      "head_checked", "gabidullina_checked", "gpzu_signed", "isogd_gpzu",
      "isogd_refusals">>

MetricKeys == {REPORT_ORDER[i] : i \in 1 .. Len(REPORT_ORDER)}

\* METRICS[key]["ids"]
METRICS ==
    [k \in MetricKeys |->
        CASE k = "primary_intake" -> {5474956, 5474950}
          [] k = "rso_requests_done" -> {5485743}
          [] k = "gpzu_prepared" -> {5474974}
          [] k = "refusals_prepared" -> {5577124}
          [] k = "head_checked" -> {5474975}
          [] k = "gabidullina_checked" -> {5542289, 5577124}
          [] k = "gpzu_signed" -> {5577161}
          [] k = "isogd_gpzu" -> {5474978}
          [] k = "isogd_refusals" -> {5474969}]

\* store.get(date_str, {}).get("moves", [])
MovesOf(st, date_str) ==
    IF date_str \in DOMAIN st THEN st[date_str].moves ELSE <<>>

\* "not card_id or not to_column_id"
SkippedMove(move) ==
    move.card_id = "" \/ move.to_column_id = 0

RECURSIVE MetricCards_exclusive(_, _, _)
\* metric_cards crediting a move only to the first metric of REPORT_ORDER
\* whose stages hold its destination
MetricCards_exclusive(moves, i, acc) ==
    IF i > Len(moves) THEN acc
    ELSE IF SkippedMove(moves[i]) THEN MetricCards_exclusive(moves, i + 1, acc)
    ELSE LET hits == {j \in DOMAIN REPORT_ORDER :
                         moves[i].to_column_id \in METRICS[REPORT_ORDER[j]]}
         IN  MetricCards_exclusive(moves, i + 1,
                [k \in MetricKeys |->
                    IF hits # {} /\ k = REPORT_ORDER[CHOOSE j \in hits : \A h \in hits : j <= h]
                    THEN acc[k] \cup {moves[i].card_id} ELSE acc[k]])

RECURSIVE MetricCards(_, _, _)
\* metric_cards after the loop over moves[i..]: acc maps each metric to the
\* set of card ids collected so far
MetricCards(moves, i, acc) ==
    IF i > Len(moves) THEN acc
    ELSE IF SkippedMove(moves[i]) THEN MetricCards(moves, i + 1, acc)
    ELSE MetricCards(moves, i + 1,
            [k \in MetricKeys |->
                IF moves[i].to_column_id \in METRICS[k]
                THEN acc[k] \cup {moves[i].card_id} ELSE acc[k]])

\* build_report_totals counting every move, not every card
build_report_totals_events(st, date_str) ==
    [k \in MetricKeys |->
        Cardinality({i \in 1 .. Len(MovesOf(st, date_str)) :
            MovesOf(st, date_str)[i].to_column_id \in METRICS[k]})]

build_report_totals(st, date_str) ==
    LET cards == MetricCards(MovesOf(st, date_str), 1, [k \in MetricKeys |-> {}])
    IN  [k \in MetricKeys |-> Cardinality(cards[k])]

(***************************************************************************)
(* The metric engine on the buckets ingestion can build.                   *)
(***************************************************************************)
MaxBucket == 3

\* notifications of two cards into stage B = 5485743, stage A = 5474973,
\* the stage shared by two metrics and a stage of primary_intake
MetricInputs ==
    { Move101(JInt(5485743), JInt(5474973)),
      Move101(JInt(5474973), JInt(5485743)),
      Move102(JInt(5485743), Absent),
      Move102(JInt(5577124), JInt(5474950)),
      Move101(JInt(5474956), Absent) }

\* the bucket the notifications f[1], f[2], ... leave on date d
BucketOf(f, d) ==
    [moves |-> [i \in 1 .. Len(f) |-> move_record(f[i], d, i)]]

SeqsUpTo(S, n) ==
    UNION {[1 .. k -> S] : k \in 0 .. n}

InitIdle ==
    /\ today = StartDay
    /\ tnow = 0
    /\ retention = 0
    /\ holidays = {}
    /\ dataFile = MissingFile
    /\ aggrFile = <<>>
    /\ stateFile = <<>>
    /\ response = "none"
    /\ sent = <<>>
    /\ lastOp = [op |-> "init"]
    /\ pout = NoPure

InitMetrics ==
    /\ InitIdle
    /\ \E f \in SeqsUpTo(MetricInputs, MaxBucket) :
           store = (date_to_str(StartDay) :> BucketOf(f, StartDay))
                   @@ (date_to_str(StartDay + 1)
                         :> BucketOf(<<Move102(JInt(5485743), Absent)>>, StartDay + 1))
    /\ pin \in {[date_str |-> date_to_str(StartDay + i)] : i \in 0 .. 2}

\* totals = build_report_totals(date_str)
ReportTotals ==
    /\ pout = NoPure
    /\ pout' = build_report_totals(store, pin.date_str)
    /\ lastOp' = [op |-> "totals"]
    /\ UNCHANGED <<today, tnow, retention, holidays, store, dataFile, aggrFile,
                   stateFile, response, sent, pin>>

NextMetrics == ReportTotals

SpecMetrics == InitMetrics /\ [][NextMetrics]_vars

\* the identities of the bucket with a move into a stage of metric k
CardsInto(moves, k) ==
    {moves[i].card_id : i \in {j \in 1 .. Len(moves) : moves[j].to_column_id \in METRICS[k]}}

\* C1: for every date and metric, the total is the number of distinct
\* cards with at least one move of that date into a stage of the metric;
\* N moves of one card into the metric's stages count once.
C1_DistinctCardsPerMetric ==
    lastOp.op = "totals" =>
        \A k \in MetricKeys :
            pout[k] = Cardinality(CardsInto(MovesOf(store, pin.date_str), k))

\* card 101 moved A -> B -> A -> B on the report date: rso_requests_done is 1
C1_Witness ==
    /\ lastOp.op = "totals"
    /\ pin.date_str = date_to_str(StartDay)
    /\ LET moves == MovesOf(store, pin.date_str)
       IN  /\ Len(moves) = 3
           /\ \A i \in 1 .. 3 : moves[i].card_id = "101"
           /\ moves[1].to_column_id = 5485743 /\ moves[1].from_column_id = 5474973
           /\ moves[2].to_column_id = 5474973 /\ moves[2].from_column_id = 5485743
           /\ moves[3].to_column_id = 5485743 /\ moves[3].from_column_id = 5474973
    /\ pout["rso_requests_done"] = 1

\* the cards of the bucket with a move into stage c
CardsIntoStage(moves, c) ==
    {moves[i].card_id : i \in {j \in 1 .. Len(moves) : moves[j].to_column_id = c}}

\* C20: a move into a stage that belongs to several metrics is credited to
\* each of them: every card moved into stage 5577124 on the date counts in
\* refusals_prepared and in gabidullina_checked, so refusals_prepared is at
\* most gabidullina_checked.
C20_SharedStageCountsInBoth ==
    lastOp.op = "totals" =>
        LET refused == CardsIntoStage(MovesOf(store, pin.date_str), 5577124)
        IN  /\ \A k \in MetricKeys :
                   5577124 \in METRICS[k] => pout[k] >= Cardinality(refused)
            /\ pout["refusals_prepared"] = Cardinality(refused)
            /\ pout["refusals_prepared"] <= pout["gabidullina_checked"]

C20_Witness ==
    /\ lastOp.op = "totals"
    /\ CardsIntoStage(MovesOf(store, pin.date_str), 5577124) = {"102"}
    /\ pout["refusals_prepared"] = 1
    /\ pout["gabidullina_checked"] = 1


(***************************************************************************)
(* _prune_old_dates on stores of dated keys around the cutoff.             *)
(***************************************************************************)
MaxPruneRetention == 2
PruneSpan == 4

\* the dates a store key is drawn from: PruneSpan days up to StartDay + 1
PruneDates == (StartDay + 1 - PruneSpan) .. (StartDay + 1)

\* a key that is no date
JunkKey == "backup"

InitPrune ==
    /\ InitIdle
    /\ \E ds \in SUBSET PruneDates, junk \in SUBSET {JunkKey} :
           store = [k \in {date_to_str(d) : d \in ds} \cup junk |->
                       BucketOf(<<Move101(JInt(5485743), Absent)>>, StartDay)]
    /\ pin \in [now : {StartDay, StartDay + 1}, R : 0 .. MaxPruneRetention]

\* _prune_old_dates(store) with DATA_RETENTION_DAYS = pin.R at date pin.now
Prune ==
    /\ lastOp.op = "init"
    /\ store' = PruneOldDates(store, pin.now, pin.R)
    /\ lastOp' = [op |-> "prune", prev |-> store]
    /\ UNCHANGED <<today, tnow, retention, holidays, dataFile, aggrFile, stateFile,
                   response, sent, pin, pout>>

NextPrune == Prune

SpecPrune == InitPrune /\ [][NextPrune]_vars

\* C6: the prune removes exactly the keys of the dates strictly before
\* (today - retention days) and keeps every other key with its bucket: the
\* cutoff date itself, today, and keys that are no dates.
C6_PruneExactlyOlderThanCutoff ==
    lastOp.op = "prune" =>
        /\ DOMAIN store \subseteq DOMAIN lastOp.prev
        /\ \A k \in DOMAIN store : store[k] = lastOp.prev[k]
        /\ \A d \in PruneDates :
               date_to_str(d) \in DOMAIN lastOp.prev =>
                   (date_to_str(d) \in DOMAIN store <=> d >= pin.now - pin.R)
        /\ JunkKey \in DOMAIN lastOp.prev => JunkKey \in DOMAIN store

C6_Witness ==
    /\ lastOp.op = "prune"
    /\ pin.R > 0
    /\ date_to_str(pin.now - pin.R - 1) \in DOMAIN lastOp.prev
    /\ date_to_str(pin.now - pin.R - 1) \notin DOMAIN store
    /\ date_to_str(pin.now - pin.R) \in DOMAIN store
    /\ date_to_str(pin.now) \in DOMAIN store
    /\ JunkKey \in DOMAIN store


(***************************************************************************)
(* The monthly roll-up (monthly_reports.py 36-281).                        *)
(***************************************************************************)
POSITIVE_TO_COLUMN_IDS == {5474978}
REFUSAL_TO_COLUMN_IDS == {5474969}

PERSON_PHYS == "Fizicheskoe litso"
PERSON_JUR == "Yuridicheskoe litso"

SUBM_EPGU == "EPGU"
SUBM_MFC == "MFC"
SUBM_PERSONAL == "Lichnyj priyom"
SUBM_RPGU == "RPGU"

Methods == {SUBM_PERSONAL, SUBM_MFC, SUBM_EPGU, SUBM_RPGU}

\* sub in s
Contains(s, sub) ==
    \E i \in 1 .. (Len(s) - Len(sub) + 1) : SubSeq(s, i, i + Len(sub) - 1) = sub

\* d.strftime("%Y-%m"), tabulated over the dates of the model's years
MonthKeys ==
    [o \in Ordinals |-> ToString(YearOf(o)) \o "-" \o Pad2(MonthOf(o))]

month_key(o) == MonthKeys[o]

\* f"{year}-{m:02d}"
YearMonthKey(year, m) ==
    ToString(year) \o "-" \o Pad2(m)

Cell(p, j) == [phys |-> p, jur |-> j]

_zero_stats_like_table ==
    [accepted_total |-> Cell(0, 0),
     accepted_by_method |-> [m \in Methods |-> Cell(0, 0)],
     services_total |-> Cell(0, 0),
     positive |-> Cell(0, 0),
     suspended |-> Cell(0, 0),
     refusals |-> Cell(0, 0)]

AddCell(a, b) == Cell(a.phys + b.phys, a.jur + b.jur)

_add_stats(dst, src) ==
    [accepted_total |-> AddCell(dst.accepted_total, src.accepted_total),
     accepted_by_method |->
        [m \in Methods |-> AddCell(dst.accepted_by_method[m], src.accepted_by_method[m])],
     services_total |-> AddCell(dst.services_total, src.services_total),
     positive |-> AddCell(dst.positive, src.positive),
     suspended |-> AddCell(dst.suspended, src.suspended),
     refusals |-> AddCell(dst.refusals, src.refusals)]

RECURSIVE YtdLoop(_, _, _, _, _)
\* total after the months m .. end_month of the loop of sum_aggregates_ytd
YtdLoop(aggr, year, m, end_month, total) ==
    IF m > end_month THEN total
    ELSE YtdLoop(aggr, year, m + 1, end_month,
                 IF YearMonthKey(year, m) \in DOMAIN aggr
                 THEN _add_stats(total, aggr[YearMonthKey(year, m)]) ELSE total)

\* sum_aggregates_ytd with range(1, end_month)
sum_aggregates_ytd_short(aggr, year, end_month) ==
    LET total == YtdLoop(aggr, year, 1, end_month - 1, _zero_stats_like_table)
    IN  [total EXCEPT !.accepted_by_method[SUBM_RPGU] = Cell(0, 0),
                      !.suspended = Cell(0, 0)]

sum_aggregates_ytd(aggr, year, end_month) ==
    LET total == YtdLoop(aggr, year, 1, end_month, _zero_stats_like_table)
    IN  [total EXCEPT !.accepted_by_method[SUBM_RPGU] = Cell(0, 0),
                      !.suspended = Cell(0, 0)]

RECURSIVE _iter_moves_in_range(_, _, _)
\* the moves of the days start .. end, in order
_iter_moves_in_range(st, start, end) ==
    IF start > end THEN <<>>
    ELSE MovesOf(st, date_to_str(start)) \o _iter_moves_in_range(st, start + 1, end)

_normalize_person_type(raw) ==
    IF raw # "" /\ Contains(raw, "Fiz") THEN PERSON_PHYS ELSE PERSON_JUR

_normalize_submission_method(raw) ==
    IF raw = "" THEN SUBM_EPGU
    ELSE IF Contains(raw, "EPGU") THEN SUBM_EPGU
    ELSE IF Contains(raw, "MFC") THEN SUBM_MFC
    ELSE IF Contains(raw, "Lich") THEN SUBM_PERSONAL
    ELSE IF Contains(raw, "RPGU") THEN SUBM_RPGU
    ELSE SUBM_EPGU

\* a comparison that never replaces the move kept first
TsGreater_never(a, b) == FALSE

\* rec["timestamp"] > prev["timestamp"]
TsGreater(a, b) ==
    a[1] > b[1] \/ (a[1] = b[1] /\ a[2] > b[2])

TerminalIds == POSITIVE_TO_COLUMN_IDS \cup REFUSAL_TO_COLUMN_IDS

\* the rec built from move m
CompletedRec(m) ==
    [card_id |-> m.card_id,
     person_type |-> _normalize_person_type(m.person_type),
     submission_method |-> _normalize_submission_method(m.submission_method),
     result |-> IF m.to_column_id \in POSITIVE_TO_COLUMN_IDS THEN "GPZU" ELSE "OTKAZ",
     timestamp |-> m.timestamp]

RECURSIVE CollectLoop(_, _, _)
\* completed after the moves i.. of the loop of _collect_completed_last_event
CollectLoop(moves, i, completed) ==
    IF i > Len(moves) THEN completed
    ELSE IF moves[i].card_id = "" \/ moves[i].to_column_id \notin TerminalIds
    THEN CollectLoop(moves, i + 1, completed)
    ELSE IF moves[i].card_id \notin DOMAIN completed
            \/ TsGreater(moves[i].timestamp, completed[moves[i].card_id].timestamp)
    THEN CollectLoop(moves, i + 1,
            [c \in DOMAIN completed \cup {moves[i].card_id} |->
                IF c = moves[i].card_id THEN CompletedRec(moves[i]) ELSE completed[c]])
    ELSE CollectLoop(moves, i + 1, completed)

_collect_completed_last_event(st, start, end) ==
    CollectLoop(_iter_moves_in_range(st, start, end), 1, <<>>)

Who(rec) == IF rec.person_type = PERSON_PHYS THEN "phys" ELSE "jur"

Bump(cell, who) ==
    IF who = "phys" THEN Cell(cell.phys + 1, cell.jur) ELSE Cell(cell.phys, cell.jur + 1)

\* TallyOne without the test "method != SUBM_RPGU"
TallyOne_counts_rpgu(t, rec) ==
    [t EXCEPT
        !.accepted_total = Bump(@, Who(rec)),
        !.accepted_by_method =
            [@ EXCEPT ![IF rec.submission_method \in Methods
                        THEN rec.submission_method ELSE SUBM_EPGU] = Bump(@, Who(rec))],
        !.positive = IF rec.result = "GPZU" THEN Bump(@, Who(rec)) ELSE @,
        !.refusals = IF rec.result = "GPZU" THEN @ ELSE Bump(@, Who(rec))]

\* the table after one pass of the loop over completed.values() on rec
TallyOne(t, rec) ==
    [t EXCEPT
        !.accepted_total = Bump(@, Who(rec)),
        !.accepted_by_method =
            IF rec.submission_method = SUBM_RPGU THEN @
            ELSE [@ EXCEPT ![IF rec.submission_method \in Methods
                             THEN rec.submission_method ELSE SUBM_EPGU] = Bump(@, Who(rec))],
        !.positive = IF rec.result = "GPZU" THEN Bump(@, Who(rec)) ELSE @,
        !.refusals = IF rec.result = "GPZU" THEN @ ELSE Bump(@, Who(rec))]

RECURSIVE TallyLoop(_, _, _)
TallyLoop(completed, todo, t) ==
    IF todo = {} THEN t
    ELSE LET c == CHOOSE x \in todo : TRUE
         IN  TallyLoop(completed, todo \ {c}, TallyOne(t, completed[c]))

\* compute_month_like_stats counting every terminal move
compute_month_like_stats_events(st, start, end) ==
    LET moves == SelectSeq(_iter_moves_in_range(st, start, end),
                           LAMBDA m : m.to_column_id \in TerminalIds)
        byIndex == [i \in 1 .. Len(moves) |-> CompletedRec(moves[i])]
        t == TallyLoop(byIndex, DOMAIN byIndex, _zero_stats_like_table)
    IN  [t EXCEPT !.services_total = AddCell(t.positive, t.refusals)]

compute_month_like_stats(st, start, end) ==
    LET completed == _collect_completed_last_event(st, start, end)
        t == TallyLoop(completed, DOMAIN completed, _zero_stats_like_table)
    IN  [t EXCEPT !.services_total = AddCell(t.positive, t.refusals)]

(***************************************************************************)
(* compute_month_like_stats on stores that ingestion can leave.            *)
(***************************************************************************)
MaxStatsBucket == 2

\* card 103: no properties in the notification, terminal moves only
Move103(to) ==
    Notif("card:update", to, Absent, JInt(103), Absent, JInt(93414))

StatsInputs ==
    { Move101(JInt(5474978), JInt(5577161)),
      Move101(JInt(5474969), Absent),
      Move101(JInt(5485743), JInt(5474973)),
      Move102(JInt(5474969), JInt(5577161)),
      Move102(JInt(5474978), Absent),
      Move103(JInt(5474978)) }

Dec1 == MkDate(2025, 12, 1)
Dec31 == MkDate(2025, 12, 31)

StatsRanges ==
    { [start |-> Dec1, end |-> Dec31],
      [start |-> Dec31, end |-> Dec31],
      [start |-> Dec31 + 1, end |-> Dec31 + 31] }

InitStats ==
    /\ InitIdle
    /\ \E f \in SeqsUpTo(StatsInputs, MaxStatsBucket), g \in SeqsUpTo(StatsInputs, 1) :
           store = (date_to_str(StartDay) :> BucketOf(f, StartDay))
                   @@ (date_to_str(StartDay + 1) :> BucketOf(g, StartDay + 1))
    /\ pin \in StatsRanges

\* month_stats = compute_month_like_stats(store, month_start, month_end)
MonthStats ==
    /\ pout = NoPure
    /\ pout' = compute_month_like_stats(store, pin.start, pin.end)
    /\ lastOp' = [op |-> "stats"]
    /\ UNCHANGED <<today, tnow, retention, holidays, store, dataFile, aggrFile,
                   stateFile, response, sent, pin>>

NextStats == MonthStats

SpecStats == InitStats /\ [][NextStats]_vars

\* the stored moves of the days pin.start .. pin.end that enter a terminal column
TerminalMovesInPeriod ==
    UNION { {store[k].moves[i] : i \in DOMAIN store[k].moves} :
            k \in {x \in DOMAIN store : StrpOk(x) /\ StrpDate(x) \in pin.start .. pin.end} }
      \cap {m \in UNION {{store[k].moves[i] : i \in DOMAIN store[k].moves} : k \in DOMAIN store} :
              m.to_column_id \in {5474978, 5474969}}

\* the latest terminal move of card c in the period enters column col and
\* carries the labels person and method
UnitEnds(c, col, person, method) ==
    \E m \in TerminalMovesInPeriod :
        /\ m.card_id = c /\ m.to_column_id = col
        /\ m.person_type = person /\ m.submission_method = method
        /\ \A o \in TerminalMovesInPeriod :
               (o.card_id = c /\ o # m) =>
                   (o.timestamp[1] < m.timestamp[1]
                    \/ (o.timestamp[1] = m.timestamp[1] /\ o.timestamp[2] < m.timestamp[2]))

TwoUnitScenario ==
    /\ {m.card_id : m \in TerminalMovesInPeriod} = {"101", "102"}
    /\ UnitEnds("101", 5474978, "Fizicheskoe litso", "EPGU")
    /\ UnitEnds("102", 5474969, "Yuridicheskoe litso", "Lichnyj priyom")

\* C10: for a period whose units are one physical applicant who submitted
\* through the portal and ended positively and one legal applicant who
\* submitted in person and ended in refusal, compute_month_like_stats returns
\* total 1/1, positive 1/0, refusals 0/1, the portal cell 1/0, the in-person
\* cell 0/1 and zero in every other method cell.
C10_TwoUnitTable ==
    (lastOp.op = "stats" /\ TwoUnitScenario) =>
        /\ pout.accepted_total = [phys |-> 1, jur |-> 1]
        /\ pout.positive = [phys |-> 1, jur |-> 0]
        /\ pout.refusals = [phys |-> 0, jur |-> 1]
        /\ pout.accepted_by_method["EPGU"] = [phys |-> 1, jur |-> 0]
        /\ pout.accepted_by_method["Lichnyj priyom"] = [phys |-> 0, jur |-> 1]
        /\ pout.accepted_by_method["MFC"] = [phys |-> 0, jur |-> 0]
        /\ pout.accepted_by_method["RPGU"] = [phys |-> 0, jur |-> 0]

\* the scenario computed, card 101 having entered a terminal column twice
C10_Witness ==
    /\ lastOp.op = "stats"
    /\ TwoUnitScenario
    /\ Cardinality({m \in TerminalMovesInPeriod : m.card_id = "101"}) = 2

(***************************************************************************)
(* sum_aggregates_ytd on aggregate files that build_month_excel_report     *)
(* can leave: every stored table is a result of compute_month_like_stats.  *)
(***************************************************************************)
MaxMonth == 3

\* the table of a month whose only day with moves holds f
TableOf(f) ==
    compute_month_like_stats((date_to_str(Dec31) :> BucketOf(f, Dec31)), Dec1, Dec31)

StoredTables ==
    { TableOf(<<Move101(JInt(5474978), Absent), Move102(JInt(5474969), Absent)>>),
      TableOf(<<Move103(JInt(5474978))>>) }

YtdKeys == {YearMonthKey(y, m) : y \in Years, m \in 1 .. MaxMonth}

InitYtd ==
    /\ InitIdle
    /\ store = EmptyStore
    /\ \E present \in SUBSET YtdKeys : \E aggr \in [present -> StoredTables] :
           pin \in {[aggr |-> aggr, year |-> y, end_month |-> m] :
                      y \in Years, m \in 1 .. MaxMonth}

\* ytd_stats = sum_aggregates_ytd(aggr, year, end_month)
Ytd ==
    /\ pout = NoPure
    /\ pout' = sum_aggregates_ytd(pin.aggr, pin.year, pin.end_month)
    /\ lastOp' = [op |-> "ytd"]
    /\ UNCHANGED <<today, tnow, retention, holidays, store, dataFile, aggrFile,
                   stateFile, response, sent, pin>>

NextYtd == Ytd

SpecYtd == InitYtd /\ [][NextYtd]_vars

RECURSIVE SumOf(_)
\* the sum of the second components of a set of pairs
SumOf(pairs) ==
    IF pairs = {} THEN 0
    ELSE LET p == CHOOSE x \in pairs : TRUE IN p[2] + SumOf(pairs \ {p})

\* the stored keys of the months 1 .. pin.end_month of the year pin.year
KeysOfYearToDate ==
    {k \in DOMAIN pin.aggr :
        \E m \in 1 .. pin.end_month :
            k = ToString(pin.year) \o "-" \o (IF m < 10 THEN "0" ELSE "") \o ToString(m)}

\* C8: sum_aggregates_ytd(aggr, Y, M) is, cell by cell, the sum of the
\* aggregates stored for the months 1 .. M of the year Y.
C8_YtdIsFieldwiseSum ==
    lastOp.op = "ytd" =>
        /\ \A field \in {"accepted_total", "services_total", "positive", "suspended", "refusals"} :
               \A who \in {"phys", "jur"} :
                   pout[field][who] = SumOf({<<k, pin.aggr[k][field][who]>> : k \in KeysOfYearToDate})
        /\ \A method \in {"Lichnyj priyom", "MFC", "EPGU", "RPGU"} :
               \A who \in {"phys", "jur"} :
                   pout.accepted_by_method[method][who]
                     = SumOf({<<k, pin.aggr[k].accepted_by_method[method][who]>> :
                               k \in KeysOfYearToDate})

\* a year-to-date sum over at least two stored months, reaching the last
\* month asked for, next to a later month and another year that stay out
C8_Witness ==
    /\ lastOp.op = "ytd"
    /\ Cardinality(KeysOfYearToDate) >= 2
    /\ YearMonthKey(pin.year, pin.end_month) \in DOMAIN pin.aggr
    /\ YearMonthKey(pin.year, pin.end_month + 1) \in DOMAIN pin.aggr
    /\ \E k \in DOMAIN pin.aggr : SubSeq(k, 1, 4) # ToString(pin.year)
    /\ pout.accepted_total.phys >= 2

(***************************************************************************)
(* The monthly report: build_month_excel_report, the monthly loop          *)
(* (monthly_reports.py 61-77, 89-117, 409-427, 503-546) and the manual     *)
(* run (run_monthly_report.py).  monthly_aggregates.json and               *)
(* monthly_report_state.json are written as the JSON object they hold; a   *)
(* missing or unreadable file loads as the empty object.                   *)
(***************************************************************************)
is_weekend(o) == Weekday(o) >= 5

is_workday(o, hol) == ~is_weekend(o) /\ date_to_str(o) \notin hol

RECURSIVE FirstWorkdayFrom(_, _)
FirstWorkdayFrom(o, hol) ==
    IF is_workday(o, hol) THEN o ELSE FirstWorkdayFrom(o + 1, hol)

\* the first calendar day of the month, whatever day it is
first_workday_of_month_calendar(year, month, hol) == MkDate(year, month, 1)

first_workday_of_month(year, month, hol) ==
    FirstWorkdayFrom(MkDate(year, month, 1), hol)

\* prev_month_range, tabulated over the dates that have a previous month in
\* the model's years
PrevMonthRanges ==
    [o \in {x \in Ordinals : x >= DaysInMonth(BaseYear, 1)} |->
        LET first_this == MkDate(YearOf(o), MonthOf(o), 1)
            last_prev == first_this - 1
        IN  [start |-> MkDate(YearOf(last_prev), MonthOf(last_prev), 1), end |-> last_prev]]

prev_month_range(o) == PrevMonthRanges[o]

\* month_range of run_monthly_report.py
month_range(y, m) ==
    [start |-> MkDate(y, m, 1),
     end |-> IF m = 12 THEN MkDate(y + 1, 1, 1) - 1 ELSE MkDate(y, m + 1, 1) - 1]

\* the buckets of the store whose date lies in the month with key "YYYY-MM"
MonthBuckets(st, key) ==
    {<<k, st[k].moves>> : k \in {x \in DOMAIN st : StrpOk(x) /\ SubSeq(x, 1, 7) = key}}

\* BuildRecord with the year-to-date table of the built month alone
BuildRecord_ytd_month_only(st, month_end, month_stats, new, fail) ==
    [raised |-> fail,
     aggr |-> IF fail THEN new.old ELSE new.aggr,
     key |-> month_key(month_end),
     moves |-> MonthBuckets(st, month_key(month_end)),
     month_stats |-> month_stats,
     ytd |-> month_stats]

\* what build_month_excel_report leaves once month_stats is computed
BuildRecord(st, month_end, month_stats, new, fail) ==
    [raised |-> fail,
     aggr |-> IF fail THEN new.old ELSE new.aggr,
     key |-> month_key(month_end),
     moves |-> MonthBuckets(st, month_key(month_end)),
     month_stats |-> month_stats,
     ytd |-> sum_aggregates_ytd(new.aggr, YearOf(month_end), MonthOf(month_end))]

\* build_month_excel_report with "aggr[key] += month_stats"
build_month_excel_report_additive(st, month_start, month_end, aggr, fail) ==
    CHOOSE b \in
        { BuildRecord(st, month_end, ms,
              [old |-> aggr,
               aggr |-> [k \in DOMAIN aggr \cup {month_key(month_end)} |->
                           IF k # month_key(month_end) THEN aggr[k]
                           ELSE IF k \in DOMAIN aggr THEN _add_stats(aggr[k], ms)
                           ELSE ms]],
              fail) :
          ms \in {compute_month_like_stats(st, month_start, month_end)} } : TRUE

\* build_month_excel_report saving a file that holds the built month alone
build_month_excel_report_fresh(st, month_start, month_end, aggr, fail) ==
    CHOOSE b \in
        { BuildRecord(st, month_end, ms,
              [old |-> aggr, aggr |-> (month_key(month_end) :> ms)], fail) :
          ms \in {compute_month_like_stats(st, month_start, month_end)} } : TRUE

\* build_month_excel_report: the aggregates file it leaves and the tables of
\* the workbook; fail: save_aggregates raises and the file stays as it was
build_month_excel_report(st, month_start, month_end, aggr, fail) ==
    CHOOSE b \in
        { BuildRecord(st, month_end, ms,
              [old |-> aggr,
               aggr |-> [k \in DOMAIN aggr \cup {month_key(month_end)} |->
                           IF k = month_key(month_end) THEN ms ELSE aggr[k]]],
              fail) :
          ms \in {compute_month_like_stats(st, month_start, month_end)} } : TRUE

\* state.get("last_sent") == pm_key, with the test left out
GuardBlocks_never(state, pm_key) == FALSE

\* state.get("last_sent") == pm_key
GuardBlocks(state, pm_key) ==
    "last_sent" \in DOMAIN state /\ state["last_sent"] = pm_key

SendEntry(by, kind, key, ok) ==
    [by |-> by, kind |-> kind, key |-> key, ok |-> ok]

NoBuild == [raised |-> TRUE]

\* the iteration from the sends on, with the guard saved whatever the
\* document upload returned
AfterBuild_guard_always(b, pm_key, state, textOk, docOk, stateFail) ==
    [key |-> pm_key,
     outcome |-> IF stateFail THEN "guard_raised" ELSE "sent",
     aggr |-> b.aggr,
     state |-> IF ~stateFail
               THEN [k \in DOMAIN state \cup {"last_sent"} |->
                        IF k = "last_sent" THEN pm_key ELSE state[k]]
               ELSE state,
     sends |-> <<SendEntry("monthly", "text", pm_key, textOk),
                 SendEntry("monthly", "document", pm_key, docOk)>>,
     build |-> b,
     wroteAggr |-> TRUE,
     wroteState |-> ~stateFail]

\* the iteration from the sends on, recording the month only if the text
\* notice went out as well
AfterBuild_needs_text(b, pm_key, state, textOk, docOk, stateFail) ==
    [key |-> pm_key,
     outcome |-> IF ~docOk THEN "send_failed"
                 ELSE IF stateFail THEN "guard_raised" ELSE "sent",
     aggr |-> b.aggr,
     state |-> IF textOk /\ docOk /\ ~stateFail
               THEN [k \in DOMAIN state \cup {"last_sent"} |->
                        IF k = "last_sent" THEN pm_key ELSE state[k]]
               ELSE state,
     sends |-> <<SendEntry("monthly", "text", pm_key, textOk),
                 SendEntry("monthly", "document", pm_key, docOk)>>,
     build |-> b,
     wroteAggr |-> TRUE,
     wroteState |-> textOk /\ docOk /\ ~stateFail]

\* the iteration from the sends on, taking the month's table out of the
\* aggregates again when the upload fails
AfterBuild_rolling_back(b, pm_key, state, textOk, docOk, stateFail) ==
    [key |-> pm_key,
     outcome |-> IF ~docOk THEN "send_failed"
                 ELSE IF stateFail THEN "guard_raised" ELSE "sent",
     aggr |-> IF docOk THEN b.aggr
              ELSE [k \in DOMAIN b.aggr \ {pm_key} |-> b.aggr[k]],
     state |-> IF docOk /\ ~stateFail
               THEN [k \in DOMAIN state \cup {"last_sent"} |->
                        IF k = "last_sent" THEN pm_key ELSE state[k]]
               ELSE state,
     sends |-> <<SendEntry("monthly", "text", pm_key, textOk),
                 SendEntry("monthly", "document", pm_key, docOk)>>,
     build |-> b,
     wroteAggr |-> TRUE,
     wroteState |-> docOk /\ ~stateFail]

\* the iteration from the sends on, b being the result of the build
AfterBuild(b, pm_key, state, textOk, docOk, stateFail) ==
    [key |-> pm_key,
     outcome |-> IF ~docOk THEN "send_failed"
                 ELSE IF stateFail THEN "guard_raised" ELSE "sent",
     aggr |-> b.aggr,
     state |-> IF docOk /\ ~stateFail
               THEN [k \in DOMAIN state \cup {"last_sent"} |->
                        IF k = "last_sent" THEN pm_key ELSE state[k]]
               ELSE state,
     sends |-> <<SendEntry("monthly", "text", pm_key, textOk),
                 SendEntry("monthly", "document", pm_key, docOk)>>,
     build |-> b,
     wroteAggr |-> TRUE,
     wroteState |-> docOk /\ ~stateFail]

\* One iteration of the monthly loop after its sleep, at date d.
\*   aggrFail  - save_aggregates raises
\*   textOk    - result of send_telegram_func (not looked at)
\*   docOk     - result of send_telegram_document
\*   stateFail - save_state raises
monthly_iteration(d, hol, file, aggr, state, aggrFail, textOk, docOk, stateFail) ==
    LET pm == prev_month_range(d)
        pm_key == month_key(pm.end)
        idle == [key |-> "", outcome |-> "not_first_workday", aggr |-> aggr,
                 state |-> state, sends |-> <<>>, build |-> NoBuild,
                 wroteAggr |-> FALSE, wroteState |-> FALSE]
    IN  IF d # first_workday_of_month(YearOf(d), MonthOf(d), hol) THEN idle
        ELSE IF GuardBlocks(state, pm_key)
        THEN [idle EXCEPT !.key = pm_key, !.outcome = "already_sent"]
        ELSE IF aggrFail
        THEN [idle EXCEPT !.key = pm_key, !.outcome = "build_raised"]
        ELSE CHOOSE r \in
                 { AfterBuild(b, pm_key, state, textOk, docOk, stateFail) :
                   b \in {build_month_excel_report(load_store(file), pm.start, pm.end,
                                                   aggr, aggrFail)} } : TRUE

MaxSent == 4

FileOf(st) == [kind |-> "json", obj |-> JsonDump(st), tmp |-> FALSE]

\* files an earlier ingestion left behind
MonthlyDataFiles ==
    { MissingFile,
      FileOf(date_to_str(StartDay)
               :> BucketOf(<<Move101(JInt(5474978), Absent), Move102(JInt(5474969), Absent)>>,
                           StartDay)),
      FileOf((date_to_str(StartDay) :> BucketOf(<<Move101(JInt(5474969), Absent)>>, StartDay))
             @@ (date_to_str(StartDay + 1)
                   :> BucketOf(<<Move101(JInt(5474978), Absent)>>, StartDay + 1))) }

\* aggregate files earlier builds left behind
MonthlyAggrFiles ==
    { <<>>,
      ("2025-11" :> TableOf(<<Move103(JInt(5474978))>>)),
      ("2025-12" :> TableOf(<<Move103(JInt(5474978))>>)) }

CliMonths == {<<2025, 11>>, <<2025, 12>>}

InitMonthly ==
    /\ today = StartDay + 1
    /\ tnow = 0
    /\ retention = 0
    /\ holidays \in {{}, {"2026-01-01"}}
    /\ dataFile \in MonthlyDataFiles
    /\ store = load_store(dataFile)
    /\ aggrFile \in MonthlyAggrFiles
    /\ stateFile \in {<<>>, ("last_sent" :> "2025-11")}
    /\ response = "none"
    /\ sent = <<>>
    /\ lastOp = [op |-> "init"]
    /\ pin = NoPure
    /\ pout = NoPure

\* what a build leaves in pout
BuildResult(b) ==
    [key |-> b.key, moves |-> b.moves, month_stats |-> b.month_stats, ytd |-> b.ytd]

\* the last build was one of the same month from the same moves
SameBuildAgain(b) ==
    pout # NoPure /\ pout.key = b.key /\ pout.moves = b.moves

\* The monthly loop wakes and runs one iteration.  The sleep is computed from
\* wall-clock reads, so nothing ties the number of wakes to the date (a late
\* wake after a suspension, a restart, a clock adjustment).
MonthlyWake ==
    \E aggrFail, textOk, docOk, stateFail \in BOOLEAN :
        /\ Len(sent) < MaxSent
        /\ aggrFail => (textOk /\ docOk /\ ~stateFail)
        /\ ~docOk => ~stateFail
        /\ \E r \in {monthly_iteration(today, holidays, dataFile, aggrFile, stateFile,
                                         aggrFail, textOk, docOk, stateFail)} :
               /\ r.outcome \in {"not_first_workday", "already_sent"}
                    => (~aggrFail /\ textOk /\ docOk /\ ~stateFail)
               /\ aggrFile' = r.aggr
               /\ stateFile' = r.state
               /\ sent' = sent \o r.sends
               /\ pout' = IF r.build.raised THEN pout ELSE BuildResult(r.build)
               /\ lastOp' = [op |-> "monthly", date |-> today, key |-> r.key,
                             outcome |-> r.outcome, built |-> ~r.build.raised,
                             again |-> ~r.build.raised /\ SameBuildAgain(r.build),
                             wroteAggr |-> r.wroteAggr, wroteState |-> r.wroteState]
        /\ UNCHANGED <<today, tnow, retention, holidays, store, dataFile, response, pin>>

\* run_monthly_report.py YYYY-MM, without --send
CliReport ==
    \E ym \in CliMonths, aggrFail \in BOOLEAN :
        /\ Len(sent) < MaxSent
        /\ \E mr \in {month_range(ym[1], ym[2])} :
               \E b \in {build_month_excel_report(load_store(dataFile), mr.start, mr.end,
                                                   aggrFile, aggrFail)} :
                   /\ aggrFile' = b.aggr
                   /\ pout' = IF b.raised THEN pout ELSE BuildResult(b)
                   /\ lastOp' = [op |-> "cli", key |-> b.key, built |-> ~b.raised,
                                 again |-> ~b.raised /\ SameBuildAgain(b)]
        /\ UNCHANGED <<today, tnow, retention, holidays, store, dataFile, stateFile,
                       response, sent, pin>>

NextMonthly == MonthlyWake \/ CliReport \/ Tick

SpecMonthly == InitMonthly /\ [][NextMonthly]_vars

\* C9: a build of month M that follows a build of M from the same moves
\* leaves the aggregates file as it was and produces the same year-to-date
\* table.
C9_RebuildIsIdempotent ==
    [][(lastOp'.op \in {"monthly", "cli"} /\ lastOp'.built
        /\ pout # NoPure /\ pout'.key = pout.key /\ pout'.moves = pout.moves)
       => (aggrFile' = aggrFile /\ pout'.ytd = pout.ytd
           /\ aggrFile'[pout'.key] = pout.month_stats)]_vars

\* month 2025-12 built a second time from the same, non-empty, moves
C9_Witness ==
    /\ lastOp.op \in {"monthly", "cli"}
    /\ lastOp.built /\ lastOp.again
    /\ pout.key = "2025-12"
    /\ pout.month_stats.accepted_total.phys >= 1
    /\ "2025-11" \in DOMAIN aggrFile

\* the month number of a key "YYYY-MM"
MonthNo(key) ==
    CHOOSE m \in 1 .. 12 : Pad2(m) = SubSeq(key, 6, 7)

\* the keys of aggr for the months of key's year before key's month
EarlierKeys(aggr, key) ==
    {k \in DOMAIN aggr :
        SubSeq(k, 1, 4) = SubSeq(key, 1, 4) /\ MonthNo(k) < MonthNo(key)}

\* C22: a build of month M adds every table persisted for an earlier month
\* of M's year to the year-to-date table, whatever moves the store still
\* holds: the year-to-date table is, cell by cell, the table of M plus the
\* persisted tables of the earlier months, and these stay in the file.
C22_YtdKeepsPrunedMonths ==
    [][(lastOp'.op \in {"monthly", "cli"} /\ lastOp'.built)
       => \E earlier \in {EarlierKeys(aggrFile, lastOp'.key)} :
              /\ \A k \in earlier : k \in DOMAIN aggrFile' /\ aggrFile'[k] = aggrFile[k]
              /\ \A field \in {"accepted_total", "services_total", "positive",
                                 "suspended", "refusals"} :
                    \A who \in {"phys", "jur"} :
                        pout'.ytd[field][who] =
                            pout'.month_stats[field][who]
                              + SumOf({<<k, aggrFile[k][field][who]>> : k \in earlier})
              /\ \A method \in Methods :
                    \A who \in {"phys", "jur"} :
                        pout'.ytd.accepted_by_method[method][who] =
                            pout'.month_stats.accepted_by_method[method][who]
                              + SumOf({<<k, aggrFile[k].accepted_by_method[method][who]>> :
                                        k \in earlier})]_vars

\* December is built when the store holds no move of November, whose table
\* was persisted, and November's units are in the year-to-date table
C22_Witness ==
    /\ lastOp.op \in {"monthly", "cli"}
    /\ lastOp.built
    /\ pout.key = "2025-12"
    /\ "2025-11" \in DOMAIN aggrFile
    /\ MonthBuckets(load_store(dataFile), "2025-11") = {}
    /\ pout.month_stats.accepted_total.phys >= 1
    /\ pout.month_stats.accepted_total.jur = 0
    /\ aggrFile["2025-11"].accepted_total.jur >= 1
    /\ pout.ytd.accepted_total.jur = aggrFile["2025-11"].accepted_total.jur

\* the log holds a confirmed document delivery of the monthly loop for key
Delivered(log, key) ==
    \E i \in DOMAIN log :
        log[i] = [by |-> "monthly", kind |-> "document", key |-> key, ok |-> TRUE]

GuardRecords(key) ==
    \E k \in DOMAIN stateFile : k = "last_sent" /\ stateFile[k] = key

MaxHolidaySpan == 5

Jan1 == MkDate(2026, 1, 1)

\* the dates HOLIDAYS may name, and an entry that names no date
HolidayCandidates ==
    {date_to_str(Jan1 + i) : i \in 0 .. (MaxHolidaySpan - 1)} \cup {"01.01.2026"}

is_holiday(o, hol) == date_to_str(o) \in hol

\* is_workday of app.py without the holiday test
app_is_workday_no_holidays(o, hol) == ~is_weekend(o)

\* is_workday of app.py
app_is_workday(o, hol) == ~is_weekend(o) /\ ~is_holiday(o, hol)

\* "d -= timedelta(days=1)" left out
Decrement_none(o) == o

\* d - timedelta(days=1)
Decrement(o) == o - 1

RECURSIVE PrevWorkdayLoop(_, _)
PrevWorkdayLoop(o, hol) ==
    IF app_is_workday(o, hol) THEN o ELSE PrevWorkdayLoop(Decrement(o), hol)

prev_workday(from_date, hol) ==
    PrevWorkdayLoop(Decrement(from_date), hol)

InitPrevWorkday ==
    /\ today = StartDay
    /\ tnow = 0
    /\ retention = 0
    /\ holidays \in SUBSET HolidayCandidates
    /\ store = EmptyStore
    /\ dataFile = MissingFile
    /\ aggrFile = <<>>
    /\ stateFile = <<>>
    /\ response = "none"
    /\ sent = <<>>
    /\ lastOp = [op |-> "init"]
    /\ pin \in {[from_date |-> Jan1 + i] : i \in 0 .. (MaxHolidaySpan + 2)}
    /\ pout = NoPure

\* d = from_date - timedelta(days=1)
PwCall ==
    /\ pout = NoPure
    /\ pout' = [pc |-> "loop", d |-> Decrement(pin.from_date)]
    /\ lastOp' = [op |-> "pw_call"]
    /\ UNCHANGED <<today, tnow, retention, holidays, store, dataFile, aggrFile,
                   stateFile, response, sent, pin>>

\* while not is_workday(d): d -= timedelta(days=1)
PwStep ==
    /\ pout # NoPure
    /\ pout.pc = "loop"
    /\ ~app_is_workday(pout.d, holidays)
    /\ pout' = [pout EXCEPT !.d = Decrement(pout.d)]
    /\ lastOp' = [op |-> "pw_step"]
    /\ UNCHANGED <<today, tnow, retention, holidays, store, dataFile, aggrFile,
                   stateFile, response, sent, pin>>

\* return d
PwReturn ==
    /\ pout # NoPure
    /\ pout.pc = "loop"
    /\ app_is_workday(pout.d, holidays)
    /\ pout' = [pout EXCEPT !.pc = "done"]
    /\ lastOp' = [op |-> "pw_return"]
    /\ UNCHANGED <<today, tnow, retention, holidays, store, dataFile, aggrFile,
                   stateFile, response, sent, pin>>

NextPrevWorkday == PwCall \/ PwStep \/ PwReturn

SpecPrevWorkday == InitPrevWorkday /\ [][NextPrevWorkday]_vars

\* the function keeps running until it returns
SpecPrevWorkdayFair == SpecPrevWorkday /\ WF_vars(NextPrevWorkday)

PwReturned == pout # NoPure /\ pout.pc = "done"

\* neither Saturday nor Sunday, and not named by the holiday set
WorkingDay(o) ==
    /\ o % 7 \notin {(MkDate(2026, 1, 3)) % 7, (MkDate(2026, 1, 4)) % 7}
    /\ \A h \in holidays : ~(StrpOk(h) /\ StrpDate(h) = o)

\* C11: the date prev_workday returns is strictly earlier than its argument,
\* is a working day, and no working day lies strictly between the two.
C11_NearestEarlierWorkday ==
    PwReturned =>
        /\ pout.d < pin.from_date
        /\ WorkingDay(pout.d)
        /\ \A o \in (pout.d + 1) .. (pin.from_date - 1) : ~WorkingDay(o)

\* returned across a weekend and holidays on both sides of it
C11_Witness ==
    /\ PwReturned
    /\ pin.from_date - pout.d >= 5
    /\ \E h \in holidays : StrpOk(h) /\ StrpDate(h) \in (pout.d + 1) .. (pin.from_date - 1)

\* C12: every call of prev_workday returns.
C12_PrevWorkdayTerminates ==
    <>PwReturned

\* returned after the loop ran over every candidate holiday and a weekend
C12_Witness ==
    /\ PwReturned
    /\ Cardinality({h \in holidays : StrpOk(h)}) = MaxHolidaySpan
    /\ pin.from_date = Jan1 + MaxHolidaySpan

\* the step is a run of the monthly loop whose document upload returned ok
MonthlyUpload(ok) ==
    /\ lastOp'.op = "monthly"
    /\ Len(sent') = Len(sent) + 2
    /\ sent'[Len(sent')] = [by |-> "monthly", kind |-> "document",
                             key |-> lastOp'.key, ok |-> ok]

\* C13: the guard-state file changes only in a run of the monthly loop whose
\* document upload for month K was confirmed, and then to last_sent = K; a run
\* whose upload failed leaves the file as it was and does not write it.
C13_GuardOnlyAfterConfirmedDelivery ==
    [][/\ (stateFile' # stateFile \/ (lastOp'.op = "monthly" /\ lastOp'.wroteState))
            => (MonthlyUpload(TRUE) /\ stateFile'["last_sent"] = lastOp'.key)
       /\ MonthlyUpload(FALSE) => (stateFile' = stateFile /\ ~lastOp'.wroteState)]_vars

\* the upload for 2025-12 failed and the guard still names 2025-11
C13_Witness ==
    /\ lastOp.op = "monthly"
    /\ lastOp.outcome = "send_failed"
    /\ lastOp.key = "2025-12"
    /\ sent[Len(sent)] = [by |-> "monthly", kind |-> "document", key |-> "2025-12", ok |-> FALSE]
    /\ \E k \in DOMAIN stateFile : stateFile[k] = "2025-11"

(***************************************************************************)
(* The monthly loop on its schedule (monthly_reports.py 508-546): the      *)
(* loop sleeps until the next 08:35 and runs one iteration at that date.   *)
(* pin holds the date of the loop's target, pout the months whose          *)
(* delivery the loop has attempted so far.                                 *)
(***************************************************************************)
MaxScheduleDays == 33

ScheduleEnd == StartDay + 1 + MaxScheduleDays

\* the process starts on 31 December 2025, before or after 08:35
InitSchedule ==
    /\ today = StartDay + 1
    /\ tnow = 0
    /\ retention = 0
    /\ holidays \in {{}, {"2026-01-01"}}
    /\ dataFile \in MonthlyDataFiles \ {MissingFile}
    /\ store = load_store(dataFile)
    /\ aggrFile = <<>>
    /\ stateFile \in {<<>>, ("last_sent" :> "2025-11")}
    /\ response = "none"
    /\ sent = <<>>
    /\ lastOp = [op |-> "init"]
    /\ pin \in {[target |-> today], [target |-> today + 1]}
    /\ pout = NoPure

\* midnight passes while the loop sleeps; the sleep ends at the target, so
\* the date does not pass the target's day before the loop has woken
DayPasses ==
    /\ today < ScheduleEnd
    /\ today < pin.target
    /\ today' = today + 1
    /\ lastOp' = [op |-> "day"]
    /\ UNCHANGED <<tnow, retention, holidays, store, dataFile, aggrFile, stateFile,
                   response, sent, pin, pout>>

\* the sleep ends at the target and the iteration runs; the next target is
\* 08:35 of the following day
ScheduledWake ==
    \E aggrFail, textOk, docOk, stateFail \in BOOLEAN :
        /\ today = pin.target
        /\ aggrFail => (textOk /\ docOk /\ ~stateFail)
        /\ ~docOk => ~stateFail
        /\ \E r \in {monthly_iteration(today, holidays, dataFile, aggrFile, stateFile,
                                         aggrFail, textOk, docOk, stateFail)} :
               /\ r.outcome \in {"not_first_workday", "already_sent"}
                    => (~aggrFail /\ textOk /\ docOk /\ ~stateFail)
               /\ aggrFile' = r.aggr
               /\ stateFile' = r.state
               /\ sent' = sent \o r.sends
               /\ lastOp' = [op |-> "scheduled_wake", date |-> today, key |-> r.key,
                             outcome |-> r.outcome]
               /\ pout' = IF r.key # "" /\ r.outcome # "already_sent"
                          THEN Append(pout, r.key) ELSE pout
        /\ pin' = [target |-> today + 1]
        /\ UNCHANGED <<today, tnow, retention, holidays, store, dataFile, response>>

NextSchedule == DayPasses \/ ScheduledWake

SpecSchedule == InitSchedule /\ [][NextSchedule]_vars

\* the number of attempts the loop has made to deliver month key
Attempts(key) ==
    Cardinality({i \in DOMAIN pout : pout[i] = key})

\* C14: a failed delivery for 2025-12 is followed by another attempt for
\* 2025-12 at a later scheduled wake.  Wake dates only grow and a wake in or
\* after February 2026 has a later subject month, so the other attempt has
\* been made by the time January is over.
C14_FailedMonthIsRetried ==
    (/\ today >= MkDate(2026, 2, 1)
     /\ \E i \in DOMAIN sent :
            sent[i] = [by |-> "monthly", kind |-> "document", key |-> "2025-12", ok |-> FALSE])
    => Attempts("2025-12") >= 2



(***************************************************************************)
(* Identity resolution: card:update notifications of one card, each with   *)
(* some of the candidate identity fields (app.py 375-416, 462-555).        *)
(***************************************************************************)
MaxIdentityMoves == 2
MaxIdentityFields == 2

IdentityFields ==
    {"old_id", "old_uid", "card_id", "id", "ch_card_id", "card_obj_id", "card_obj_uid"}

\* the fields Kaiten names id, uid and card_id of the card itself
UnitFields == {"old_id", "old_uid", "card_id"}

\* card 101 has uid "u101"; the event's own id is 777
FieldValue(f) ==
    CASE f \in {"old_id", "card_id", "ch_card_id", "card_obj_id"} -> JInt(101)
      [] f \in {"old_uid", "card_obj_uid"} -> JStr("u101")
      [] f = "id" -> JInt(777)

\* a move of card 101 into stage 5485743 carrying the fields of S
IdentityNotif(S) ==
    LET v(f) == IF f \in S THEN FieldValue(f) ELSE Absent
    IN  [Notif("card:update", JInt(5485743), JInt(5474973), v("old_id"),
               JList1(93406), JList1(93413))
           EXCEPT !.old_uid = v("old_uid"), !.card_id = v("card_id"), !.id = v("id"),
                  !.ch_card_id = v("ch_card_id"), !.card_obj_id = v("card_obj_id"),
                  !.card_obj_uid = v("card_obj_uid")]

\* the same move with every field it carries empty: null, "" or 0
EmptyIdentityNotif ==
    [IdentityNotif({}) EXCEPT !.old_id = Null, !.old_uid = JStr(""), !.id = JInt(0)]

IdentityInputs ==
    {IdentityNotif(S) : S \in {T \in SUBSET IdentityFields :
                                  Cardinality(T) <= MaxIdentityFields}}
      \cup {IdentityNotif(UnitFields), EmptyIdentityNotif}

InitIdentity ==
    /\ InitIdle
    /\ store = EmptyStore
    /\ pin = NoPure

\* n carries only fields among the card's id, uid and card_id, and at least
\* one of them
CarriesUnitFields(n) ==
    \E S \in SUBSET UnitFields : S # {} /\ n = IdentityNotif(S)

\* one call of the endpoint; pout tells of every stored notification whether
\* it carried unit fields only
IdentityIngest ==
    \E n \in IdentityInputs :
        /\ tnow < MaxIdentityMoves
        /\ \E r \in {kaiten_webhook(n, store, dataFile, today, tnow, today,
                                     retention, "none")} :
               /\ store' = r.store
               /\ dataFile' = r.file
               /\ response' = r.response
        /\ tnow' = IF Disposition(n) = "store" THEN tnow + 1 ELSE tnow
        /\ pout' = IF Disposition(n) = "store"
                   THEN Append(pout, CarriesUnitFields(n)) ELSE pout
        /\ lastOp' = [op |-> "webhook", req |-> n, fail |-> "none",
                      prev |-> store, day |-> today, instant |-> tnow,
                      pruneDate |-> today]
        /\ UNCHANGED <<today, retention, holidays, aggrFile, stateFile, sent, pin>>

SpecIdentity == InitIdentity /\ [][IdentityIngest]_vars

\* the candidate fields in the order extract_card_key tries them
CandidateOrder ==
    <<"old_id", "old_uid", "card_id", "id", "ch_card_id", "card_obj_id", "card_obj_uid">>

\* the same candidates, the card object before the event's own id, and
\* without the change-set's card_id
CardObjectFirst ==
    <<"old_id", "old_uid", "card_id", "card_obj_id", "card_obj_uid", "id">>

FieldOf(n, f) ==
    CASE f = "old_id" -> n.old_id
      [] f = "old_uid" -> n.old_uid
      [] f = "card_id" -> n.card_id
      [] f = "id" -> n.id
      [] f = "ch_card_id" -> n.ch_card_id
      [] f = "card_obj_id" -> n.card_obj_id
      [] f = "card_obj_uid" -> n.card_obj_uid

\* the identity string candidate f yields
Rendered(n, f) ==
    IF f = "old_uid" THEN "uid_" \o PyStr(FieldOf(n, f)) ELSE PyStr(FieldOf(n, f))

\* the first candidate of order that is present and non-empty, 0 if none
FirstNonEmpty(n, order) ==
    IF \E i \in DOMAIN order : Has(FieldOf(n, order[i]))
    THEN CHOOSE i \in DOMAIN order :
            /\ Has(FieldOf(n, order[i]))
            /\ \A j \in 1 .. i - 1 : ~Has(FieldOf(n, order[j]))
    ELSE 0

RecordsOf(st) ==
    UNION {{st[k].moves[i] : i \in DOMAIN st[k].moves} : k \in DOMAIN st}

\* no candidate field of n is present and non-empty
NoIdentity(n) ==
    \A f \in IdentityFields : ~Has(FieldOf(n, f))

\* C16: a notification none of whose candidate identity fields is non-empty
\* is dropped with the store and its file unchanged, and every record
\* ingestion appends carries a non-empty identity rendered from a non-empty
\* candidate field of its own notification.
C16_UnidentifiedIsDropped ==
    [][lastOp'.op = "webhook"
         => /\ (NoIdentity(lastOp'.req) => (store' = store /\ dataFile' = dataFile))
            /\ \A rec \in RecordsOf(store') \ RecordsOf(store) :
                   /\ rec.card_id \notin {"", NoKey}
                   /\ \E f \in IdentityFields :
                          /\ Has(FieldOf(lastOp'.req, f))
                          /\ rec.card_id = Rendered(lastOp'.req, f)]_vars

C16_Witness ==
    /\ WebhookStep
    /\ lastOp.req = EmptyIdentityNotif
    /\ response = Ack
    /\ store = lastOp.prev
    /\ store # EmptyStore

\* the identity of the record the last webhook call appended
StoredIdentity ==
    LET moves == store[date_to_str(lastOp.day)].moves
    IN  moves[Len(moves)].card_id

StoredStep ==
    WebhookStep /\ Disposition(lastOp.req) = "store"

\* C17 as stated: the identity is the first non-empty candidate in the
\* order previous-state id, previous-state unique id, event-level card id,
\* card object's id, card object's unique id, event-level generic id; with
\* only the card object's id and the generic id present it is the card
\* object's id.
C17_CardObjectBeforeGenericId ==
    (StoredStep /\ ~Has(lastOp.req.ch_card_id)) =>
        StoredIdentity =
            Rendered(lastOp.req, CardObjectFirst[FirstNonEmpty(lastOp.req, CardObjectFirst)])

\* C17, amended: the identity is the first non-empty candidate in the order
\* previous-state id, previous-state unique id (prefixed "uid_"),
\* event-level card id, event-level generic id, change-set card id, card
\* object's id, card object's unique id; with only the card object's id and
\* the generic id present it is the generic id.
C17_GenericIdBeforeCardObject ==
    StoredStep =>
        StoredIdentity =
            Rendered(lastOp.req, CandidateOrder[FirstNonEmpty(lastOp.req, CandidateOrder)])

C17_Witness ==
    /\ StoredStep
    /\ lastOp.req = IdentityNotif({"card_obj_id", "id"})
    /\ StoredIdentity = "777"

\* every stored notification carried unit fields only
OnlyUnitFields ==
    \A i \in DOMAIN pout : pout[i]

\* C18: two card:update notifications of the same card resolve to the same
\* identity whichever non-empty subset of id, uid and card_id each carries,
\* so the day's metric counts the card once.
C18_OneIdentityPerUnit ==
    OnlyUnitFields =>
        /\ Cardinality({rec.card_id : rec \in RecordsOf(store)}) <= 1
        /\ build_report_totals(store, date_to_str(today))["rso_requests_done"] <= 1


(***************************************************************************)
(* Every operation on the move store: ingestion, startup, the daily loop,  *)
(* the on-demand report and the monthly loop (app.py 650-695, 712-724,     *)
(* 747-771).                                                               *)
(***************************************************************************)
MaxStoreSends == 1
MaxStoreMoves == 2
MaxStoreDays == 1

\* one wake of auto_send_daily_reports that clears the reported day after a
\* confirmed send
DailyWake_clearing ==
    \E ok \in BOOLEAN :
        /\ Len(sent) < MaxStoreSends
        /\ IF ~app_is_workday(today, holidays)
           THEN /\ ok
                /\ lastOp' = [op |-> "daily", skipped |-> TRUE]
                /\ UNCHANGED <<sent, store>>
           ELSE \E date_str \in {date_to_str(prev_workday(today, holidays))} :
                  /\ sent' = Append(sent, SendEntry("daily", "text", date_str, ok))
                  /\ store' = IF ok
                              THEN [k \in DOMAIN store \ {date_str} |-> store[k]]
                              ELSE store
                  /\ lastOp' = [op |-> "daily", skipped |-> FALSE, date_str |-> date_str,
                                totals |-> build_report_totals(store, date_str), ok |-> ok]
        /\ UNCHANGED <<today, tnow, retention, holidays, dataFile, aggrFile,
                       stateFile, response, pin, pout>>

\* DailyWake with the date taken before the sleep: the target's date
DailyWake_stale_clock ==
    \E ok \in BOOLEAN :
        /\ Len(sent) < MaxStoreSends
        /\ IF ~app_is_workday(pin.target, holidays)
           THEN /\ ok
                /\ lastOp' = [op |-> "daily", skipped |-> TRUE]
                /\ UNCHANGED sent
           ELSE \E date_str \in {date_to_str(prev_workday(pin.target, holidays))} :
                  /\ sent' = Append(sent, SendEntry("daily", "text", date_str, ok))
                  /\ lastOp' = [op |-> "daily", skipped |-> FALSE, date_str |-> date_str,
                                totals |-> build_report_totals(store, date_str), ok |-> ok]
        /\ UNCHANGED <<today, tnow, retention, holidays, store, dataFile, aggrFile,
                       stateFile, response, pin, pout>>

\* one wake of auto_send_daily_reports at 08:35; ok is what send_telegram
\* returns
DailyWakeUpTo(limit) ==
    \E ok \in BOOLEAN :
        /\ Len(sent) < limit
        /\ IF ~app_is_workday(today, holidays)
           THEN /\ ok
                /\ lastOp' = [op |-> "daily", skipped |-> TRUE]
                /\ UNCHANGED sent
           ELSE \E date_str \in {date_to_str(prev_workday(today, holidays))} :
                  /\ sent' = Append(sent, SendEntry("daily", "text", date_str, ok))
                  /\ lastOp' = [op |-> "daily", skipped |-> FALSE, date_str |-> date_str,
                                totals |-> build_report_totals(store, date_str), ok |-> ok]
        /\ UNCHANGED <<today, tnow, retention, holidays, store, dataFile, aggrFile,
                       stateFile, response, pin, pout>>

DailyWake == DailyWakeUpTo(MaxStoreSends)

\* GET /test_report
TestReport ==
    /\ \E date_str \in {date_to_str(prev_workday(today, holidays))} :
          /\ response' = [date |-> date_str, totals |-> build_report_totals(store, date_str)]
          /\ lastOp' = [op |-> "test_report", date_str |-> date_str]
    /\ UNCHANGED <<today, tnow, retention, holidays, store, dataFile, aggrFile,
                   stateFile, sent, pin, pout>>

\* one wake of the monthly loop
StoreMonthlyWake ==
    /\ Len(sent) < MaxStoreSends
    /\ MonthlyWake

\* the process starts on 2025-12-31 with no file and keeps no day but the
\* current one, so that the prune acts within the days of the model
InitStore ==
    /\ today = StartDay + 1
    /\ tnow = 0
    /\ retention = 0
    /\ holidays = {}
    /\ store = EmptyStore
    /\ dataFile = MissingFile
    /\ aggrFile = <<>>
    /\ stateFile = <<>>
    /\ response = "none"
    /\ sent = <<>>
    /\ lastOp = [op |-> "init"]
    /\ pin = NoPure
    /\ pout = NoPure

\* a webhook call with a stored notification or an unparsable one, whose
\* save succeeds or fails at the rename
StoreIngest ==
    /\ tnow < MaxStoreMoves
    /\ Ingest
    /\ lastOp'.req \in {Move101(JInt(5485743), JInt(5474973)), Unparsable}
    /\ lastOp'.fail \in {"none", "replace"}
    /\ today' <= StartDay + 1 + MaxStoreDays

StoreTick ==
    /\ today < StartDay + 1 + MaxStoreDays
    /\ Tick

NextStore ==
    \/ StoreIngest
    \/ StoreTick
    \/ Restart
    \/ DailyWake
    \/ TestReport
    \/ StoreMonthlyWake

SpecStore == InitStore /\ [][NextStore]_vars

IsPrefix(a, b) ==
    Len(a) <= Len(b) /\ SubSeq(b, 1, Len(a)) = a

\* the date keys of the durable file
FileKeys(file) == {m[1] : m \in file.obj}

COLUMN_NAMES ==
    [c \in {5474955, 5474956, 5524513, 5474972, 5485743, 5474973, 5474974, 5474975,
            5542289, 5474976, 5474977, 5474978, 5474950, 5577124, 5474965, 5474969} |->
        CASE c = 5474955 -> "Vhodyashchaya proverka"
          [] c = 5474956 -> "Zaprosit TOPO"
          [] c = 5524513 -> "Ozhidanie TOPO"
          [] c = 5474972 -> "Zaprosit TU u RSO"
          [] c = 5485743 -> "WIP OZHIDANIE"
          [] c = 5474973 -> "Podgotovit GPZU"
          [] c = 5474974 -> "Proverka nachalnika otdela"
          [] c = 5474975 -> "Finalizaciya (dobavlenie RSO,registraciya)"
          [] c = 5542289 -> "Proverka Gabidulina R.R. (gradplany)"
          [] c = 5474976 -> "Podpisanie"
          [] c = 5474977 -> "Vnesti v GISOGD (gradplany)"
          [] c = 5474978 -> "Vnesti v ISOGD i arhiv"
          [] c = 5474950 -> "Podgotovit otkaz"
          [] c = 5577124 -> "Proverka Gabidulina R.R. (otkazy)"
          [] c = 5474965 -> "Vnesti v GISOGD (otkazy)"
          [] c = 5474969 -> "Vnesti v ISOGD"]

\* COLUMN_NAMES.get(column_id, f"Kolonka {column_id}")
get_column_name(c) ==
    IF c \in DOMAIN COLUMN_NAMES THEN COLUMN_NAMES[c] ELSE "Kolonka " \o ToString(c)

METRICS_ORDER ==
    <<"primary_intake", "rso_requests_done", "gpzu_prepared", "refusals_prepared",
      "head_checked", "gabidullina_checked", "gpzu_signed", "isogd_added">>

\* the sub-keys of a metric whose column_ids is a dict, in its order
SubKeys(key) ==
    IF key = "isogd_added" THEN <<"gpzu", "refusals">> ELSE <<>>

\* METRICS[key]["column_ids"], and METRICS[key]["column_ids"][sub]
LegacyColumnIds(key, sub) ==
    CASE key = "primary_intake" -> {5474956, 5474950}
      [] key = "rso_requests_done" -> {5485743}
      [] key = "gpzu_prepared" -> {5474974}
      [] key = "refusals_prepared" -> {5577124}
      [] key = "head_checked" -> {5474975}
      [] key = "gabidullina_checked" -> {5542289, 5577124}
      [] key = "gpzu_signed" -> {5474977}
      [] key = "isogd_added" /\ sub = "gpzu" -> {5474978}
      [] key = "isogd_added" /\ sub = "refusals" -> {5474969}

\* build_metric_targets: the names of the metric's columns
MetricTargets(key, sub) ==
    {COLUMN_NAMES[i] : i \in LegacyColumnIds(key, sub) \cap DOMAIN COLUMN_NAMES}

\* the entry of the result a count goes to: the metric, or metric.sub
Slot(key, sub) ==
    IF sub = "" THEN key ELSE key \o "." \o sub

Slots ==
    {Slot(METRICS_ORDER[i], "") : i \in {j \in DOMAIN METRICS_ORDER :
                                            SubKeys(METRICS_ORDER[j]) = <<>>}}
      \cup {Slot("isogd_added", "gpzu"), Slot("isogd_added", "refusals")}

\* the first sub-key whose targets hold to_col, "" if none
FirstSubKey(key, to_col) ==
    LET subs == SubKeys(key)
        hits == {j \in DOMAIN subs : to_col \in MetricTargets(key, subs[j])}
    IN  IF hits = {} THEN ""
        ELSE subs[CHOOSE j \in hits : \A h \in hits : j <= h]

RECURSIVE CreditLoop(_, _, _, _, _)
\* the loop over metrics_order for one route: the slots its count is added
\* to, from metric i on
CreditLoop(to_col, i, matched, exclusive, acc) ==
    IF i > Len(METRICS_ORDER) THEN acc
    ELSE LET key == METRICS_ORDER[i]
             nested == SubKeys(key) # <<>>
             sub == FirstSubKey(key, to_col)
             hit == IF nested THEN sub # "" ELSE to_col \in MetricTargets(key, "")
             acc2 == IF hit THEN acc \cup {Slot(key, sub)} ELSE acc
             matched2 == matched \/ hit
         IN  IF matched2 /\ exclusive THEN acc2
             ELSE CreditLoop(to_col, i + 1, matched2, exclusive, acc2)

RECURSIVE SumCounts(_, _)
SumCounts(stats, keys) ==
    IF keys = {} THEN 0
    ELSE LET k == CHOOSE x \in keys : TRUE
         IN  stats[k] + SumCounts(stats, keys \ {k})

\* count_metrics_for_date whatever the flag: every matching metric
count_metrics_for_date_inclusive(stats, exclusive) ==
    [s \in Slots |->
        SumCounts(stats, {k \in DOMAIN stats :
                            s \in CreditLoop(k[3], 1, FALSE, FALSE, {})})]

\* count_metrics_for_date on the day's stats, keyed (user, from_col, to_col)
count_metrics_for_date(stats, exclusive) ==
    [s \in Slots |->
        SumCounts(stats, {k \in DOMAIN stats :
                            s \in CreditLoop(k[3], 1, FALSE, exclusive, {})})]

\* moves_by_date[date_key][user_name][route] += 1
AddRoute(stats, user, old_column_id, new_column_id) ==
    LET k == <<user, get_column_name(old_column_id), get_column_name(new_column_id)>>
    IN  IF k \in DOMAIN stats THEN [stats EXCEPT ![k] = @ + 1] ELSE stats @@ (k :> 1)

RECURSIVE StatsOf(_, _)
\* the day's stats after the move events ev[1..n]
StatsOf(ev, n) ==
    IF n = 0 THEN <<>>
    ELSE AddRoute(StatsOf(ev, n - 1), ev[n].user, ev[n].from, ev[n].to)

MaxLegacyEvents == 2

\* moves of two users into the stage shared by two metrics, the stages of
\* the nested metric, a stage of no metric and a stage without a name
LegacyEvents ==
    [user : {"u1", "u2"}, from : {5474955},
     to : {5577124, 5542289, 5474978, 5474969, 5474955, 1}]

InitLegacy ==
    /\ InitIdle
    /\ store = EmptyStore
    /\ \E ev \in SeqsUpTo(LegacyEvents, MaxLegacyEvents), exclusive \in BOOLEAN :
           pin = [events |-> ev, exclusive |-> exclusive]

\* generate_report_text_for_day: count the day's events
LegacyCount ==
    /\ pout = NoPure
    /\ lastOp.op = "init"
    /\ pout' = count_metrics_for_date(StatsOf(pin.events, Len(pin.events)), pin.exclusive)
    /\ lastOp' = [op |-> "legacy_totals"]
    /\ UNCHANGED <<today, tnow, retention, holidays, store, dataFile, aggrFile,
                   stateFile, response, sent, pin>>

SpecLegacy == InitLegacy /\ [][LegacyCount]_vars

\* the first slot, in priority order, whose stages hold column c; "" if none
FirstSlotOf(c) ==
    LET order == <<"primary_intake", "rso_requests_done", "gpzu_prepared",
                   "refusals_prepared", "head_checked", "gabidullina_checked",
                   "gpzu_signed", "isogd_added.gpzu", "isogd_added.refusals">>
        ids == <<{5474956, 5474950}, {5485743}, {5474974}, {5577124}, {5474975},
                 {5542289, 5577124}, {5474977}, {5474978}, {5474969}>>
        hits == {j \in DOMAIN order : c \in ids[j]}
    IN  IF hits = {} THEN "" ELSE order[CHOOSE j \in hits : \A h \in hits : j <= h]

RECURSIVE SumOver(_, _)
SumOver(f, S) ==
    IF S = {} THEN 0
    ELSE LET x == CHOOSE y \in S : TRUE IN f[x] + SumOver(f, S \ {x})

\* C21: with exclusive = True every move event is credited to the first
\* metric of METRICS_ORDER whose stages hold its destination and to no
\* other, so a move into 5577124 counts for refusals_prepared and not for
\* gabidullina_checked, and the totals of the day sum to at most the number
\* of its move events.
C21_ExclusiveCreditsFirstMetricOnly ==
    (lastOp.op = "legacy_totals" /\ pin.exclusive) =>
        /\ \A s \in Slots :
              pout[s] = Cardinality({i \in DOMAIN pin.events :
                                        FirstSlotOf(pin.events[i].to) = s})
        /\ SumOver(pout, Slots) <= Len(pin.events)

C21_Witness ==
    /\ lastOp.op = "legacy_totals"
    /\ pin.exclusive
    /\ \E i \in DOMAIN pin.events : pin.events[i].to = 5577124
    /\ \E i \in DOMAIN pin.events : pin.events[i].to = 5474955
    /\ pout["refusals_prepared"] = 1
    /\ pout["gabidullina_checked"] = 0


(***************************************************************************)
(* The daily loop with its sleep (app.py 663-691): the target is computed, *)
(* the thread sleeps, and the wake reads the clock again.                  *)
(***************************************************************************)
MaxOversleep == 1

\* Thursday 2026-01-01 .. Monday 2026-01-05
DailyStartDays == {Jan1 + i : i \in 0 .. 4}

InitDaily ==
    /\ today \in DailyStartDays
    /\ tnow = 0
    /\ retention = 0
    /\ holidays \in {{}, {"2026-01-02"}}
    /\ store = (date_to_str(Jan1 + 1)
                  :> BucketOf(<<Move101(JInt(5485743), JInt(5474973))>>, Jan1 + 1))
    /\ dataFile = FileOf(store)
    /\ aggrFile = <<>>
    /\ stateFile = <<>>
    /\ response = "none"
    /\ sent = <<>>
    /\ lastOp = [op |-> "init"]
    /\ pin = NoPure
    /\ pout = NoPure

\* now = now_nsk(); target = 08:35 of today, or of tomorrow if now >= target;
\* time.sleep(...) begins
DailySleep ==
    /\ lastOp.op \in {"init", "daily"}
    /\ Len(sent) < MaxStoreSends
    /\ \E late \in {0, 1} : pin' = [began |-> today, target |-> today + late]
    /\ lastOp' = [op |-> "daily_sleep"]
    /\ UNCHANGED <<today, tnow, retention, holidays, store, dataFile, aggrFile,
                   stateFile, response, sent, pout>>

\* midnight passes while the thread sleeps; the sleep may run over
SleepDayPasses ==
    /\ lastOp.op \in {"daily_sleep", "day"}
    /\ today < pin.target + MaxOversleep
    /\ today' = today + 1
    /\ lastOp' = [op |-> "day"]
    /\ UNCHANGED <<tnow, retention, holidays, store, dataFile, aggrFile, stateFile,
                   response, sent, pin, pout>>

\* time.sleep returns, not before the target
DailyWakeAfterSleep ==
    /\ lastOp.op \in {"daily_sleep", "day"}
    /\ today >= pin.target
    /\ DailyWake

SpecDaily == InitDaily /\ [][DailySleep \/ SleepDayPasses \/ DailyWakeAfterSleep]_vars

\* the nearest working day strictly before o
NearestEarlierWorkingDay(o) ==
    CHOOSE d \in (o - 10) .. (o - 1) :
        WorkingDay(d) /\ \A e \in (d + 1) .. (o - 1) : ~WorkingDay(e)

\* C23: a daily wake on a weekend day or a holiday builds and sends nothing
\* and changes no state; on any other day the report's date is the nearest
\* working day strictly before the date of the wake, whatever the date on
\* which the sleep began or the date of its target.
C23_DailyWakeReadsClockAgain ==
    [][lastOp'.op = "daily"
         => IF WorkingDay(today)
            THEN /\ ~lastOp'.skipped
                 /\ lastOp'.date_str = date_to_str(NearestEarlierWorkingDay(today))
                 /\ sent' = Append(sent, SendEntry("daily", "text", lastOp'.date_str,
                                                   lastOp'.ok))
                 /\ lastOp'.totals = build_report_totals(store, lastOp'.date_str)
            ELSE /\ lastOp'.skipped
                 /\ UNCHANGED <<today, tnow, retention, holidays, store, dataFile,
                                aggrFile, stateFile, response, sent, pin, pout>>]_vars

\* a wake on Monday 2026-01-05, a day after the target, reports Friday
C23_Witness ==
    /\ lastOp.op = "daily"
    /\ today = Jan1 + 4
    /\ holidays = {}
    /\ pin.began < pin.target
    /\ pin.target < today
    /\ ~lastOp.skipped
    /\ lastOp.date_str = "2026-01-02"
    /\ lastOp.totals["rso_requests_done"] = 1


(***************************************************************************)
(* The first check of the monthly loop (monthly_reports.py 517-523).       *)
(***************************************************************************)
\* o is a working day and no earlier day of its month is one
FirstWorkingDayOfItsMonth(o) ==
    /\ WorkingDay(o)
    /\ \A e \in MkDate(YearOf(o), MonthOf(o), 1) .. (o - 1) : ~WorkingDay(e)

\* the key of the calendar month before the month of o
PrecedingMonthKey(o) ==
    IF MonthOf(o) = 1 THEN YearMonthKey(YearOf(o) - 1, 12)
    ELSE YearMonthKey(YearOf(o), MonthOf(o) - 1)

\* C24: a wake of the monthly loop goes past its first check exactly when the
\* wake date is the first working day of its month, and its subject is then
\* the calendar month before the wake date's month; a wake on any other day
\* sends nothing and leaves the store and every file as they were.
C24_OnlyOnFirstWorkday ==
    [][lastOp'.op = "scheduled_wake"
         => IF FirstWorkingDayOfItsMonth(today)
            THEN /\ lastOp'.outcome # "not_first_workday"
                 /\ lastOp'.key = PrecedingMonthKey(today)
            ELSE /\ lastOp'.outcome = "not_first_workday"
                 /\ UNCHANGED <<today, tnow, retention, holidays, store, dataFile,
                                aggrFile, stateFile, response, sent, pout>>]_vars

\* with 1 January a holiday the wake of Friday 2 January reports December
\* 2025, and the wake of Monday 2 February reports January 2026
C24_Witness ==
    /\ lastOp.op = "scheduled_wake"
    /\ lastOp.date = MkDate(2026, 2, 2)
    /\ lastOp.key = "2026-01"
    /\ lastOp.outcome = "sent"
    /\ holidays = {"2026-01-01"}
    /\ \E i \in DOMAIN sent :
           sent[i] = [by |-> "monthly", kind |-> "document", key |-> "2025-12", ok |-> TRUE]


(***************************************************************************)
(* The control flow of the two scheduler loops (app.py 663-695,            *)
(* monthly_reports.py 508-546): `while True`, the whole body inside `try`, *)
(* `except Exception` with time.sleep(60).  pin holds each loop's          *)
(* position, pout the statement whose exception each loop handled last.    *)
(***************************************************************************)
Loops == {"daily", "monthly"}

\* the statements of one iteration, in order
LoopBody(loop) ==
    IF loop = "daily"
    THEN <<"now", "sleep", "wake", "build", "send">>
    ELSE <<"now", "sleep", "wake", "guard", "load", "build", "text", "doc", "save">>

\* the statements followed by a test that may `continue`
ContinuesAfter(loop) ==
    IF loop = "daily" THEN {"wake"} ELSE {"wake", "guard", "doc"}

IndexOf(seq, x) == CHOOSE i \in DOMAIN seq : seq[i] = x

\* where control goes past statement at when nothing was raised
AfterStatement(loop, at, continues) ==
    LET body == LoopBody(loop)
        i == IndexOf(body, at)
    IN  IF continues \/ i = Len(body) THEN body[1] ELSE body[i + 1]

\* a body whose last statement stands after the try block
OnRaise_last_unguarded(loop, at) ==
    IF at = LoopBody(loop)[Len(LoopBody(loop))] THEN "exited" ELSE "backoff"

\* where control goes when statement at raises an Exception: the except
\* clause of the enclosing try
OnRaise(loop, at) == "backoff"

InitLoops ==
    /\ today = StartDay
    /\ tnow = 0
    /\ retention = 0
    /\ holidays = {}
    /\ store = <<>>
    /\ dataFile = MissingFile
    /\ aggrFile = <<>>
    /\ stateFile = <<>>
    /\ response = "none"
    /\ sent = <<>>
    /\ lastOp = [op |-> "init"]
    /\ pin = [daily |-> "now", monthly |-> "now"]
    /\ pout = [daily |-> "", monthly |-> ""]

\* one statement of the body runs: it returns, or it raises
LoopStatement(loop) ==
    \E raised, continues \in BOOLEAN :
        /\ pin[loop] \notin {"backoff", "exited"}
        /\ raised => ~continues
        /\ continues => pin[loop] \in ContinuesAfter(loop)
        /\ pin' = [pin EXCEPT ![loop] = IF raised THEN OnRaise(loop, pin[loop])
                                        ELSE AfterStatement(loop, pin[loop], continues)]
        /\ pout' = IF raised THEN [pout EXCEPT ![loop] = pin[loop]] ELSE pout
        /\ lastOp' = [op |-> "statement", loop |-> loop, at |-> pin[loop],
                      raised |-> raised]
        /\ UNCHANGED <<today, tnow, retention, holidays, store, dataFile, aggrFile,
                       stateFile, response, sent>>

\* print(...); time.sleep(60) of the except clause, then the next iteration
Backoff(loop) ==
    /\ pin[loop] = "backoff"
    /\ pin' = [pin EXCEPT ![loop] = LoopBody(loop)[1]]
    /\ lastOp' = [op |-> "backoff", loop |-> loop]
    /\ UNCHANGED <<today, tnow, retention, holidays, store, dataFile, aggrFile,
                   stateFile, response, sent, pout>>

NextLoops == \E loop \in Loops : LoopStatement(loop) \/ Backoff(loop)

SpecLoops == InitLoops /\ [][NextLoops]_vars

\* time.sleep(60) returns
SpecLoopsFair == SpecLoops /\ \A loop \in Loops : WF_vars(Backoff(loop))

\* C25: neither loop ever leaves its `while True`; a statement of an
\* iteration that raises puts its loop into the back-off sleep, and a loop in
\* its back-off sleep starts its next iteration.
C25_LoopsNeverExit ==
    /\ [](\A loop \in Loops : pin[loop] # "exited")
    /\ [][\A loop \in Loops :
            (lastOp'.op = "statement" /\ lastOp'.loop = loop /\ lastOp'.raised)
              => pin'[loop] = "backoff"]_vars
    /\ \A loop \in Loops : (pin[loop] = "backoff") ~> (pin[loop] = LoopBody(loop)[1])

\* the monthly loop starts an iteration after its guard save raised, and the
\* daily loop had handled a failed send
C25_Witness ==
    /\ lastOp = [op |-> "backoff", loop |-> "monthly"]
    /\ pin.monthly = "now"
    /\ pout.monthly = "save"
    /\ pout.daily = "send"


(***************************************************************************)
(* load_store at startup over files of every shape (app.py 320-347,        *)
(* 747-750).                                                               *)
(***************************************************************************)
MaxLoadRecords == 2

LoadKeys == {date_to_str(StartDay), date_to_str(StartDay + 1), "junk"}

\* the values a key of the file's object may hold: day objects with a list
\* of records, a value that is no object, an object whose "moves" is no
\* list, an object without "moves"
LoadEntries ==
    {[isdict |-> TRUE, islist |-> TRUE,
      moves |-> [i \in 1 .. n |-> move_record(Move101(JInt(5485743), JInt(5474973)),
                                              StartDay, i)]] : n \in 0 .. MaxLoadRecords}
    \cup {[isdict |-> FALSE, islist |-> FALSE, moves |-> <<>>],
          [isdict |-> TRUE, islist |-> FALSE, moves |-> <<>>],
          [isdict |-> TRUE]}

LoadFiles ==
    {MissingFile,
     [kind |-> "truncated", obj |-> {}, tmp |-> FALSE],
     [kind |-> "json_list", obj |-> {}, tmp |-> FALSE]}
    \cup {[kind |-> "json", obj |-> {<<k, f[k]>> : k \in DOMAIN f}, tmp |-> FALSE] :
            f \in UNION {[K -> LoadEntries] : K \in SUBSET LoadKeys}}

InitLoad ==
    /\ today = StartDay + 1
    /\ tnow = 0
    /\ retention = 0
    /\ holidays = {}
    /\ store = EmptyStore
    /\ dataFile \in LoadFiles
    /\ aggrFile = <<>>
    /\ stateFile = <<>>
    /\ response = "none"
    /\ sent = <<>>
    /\ lastOp = [op |-> "init"]
    /\ pin = NoPure
    /\ pout = NoPure

SpecLoad == InitLoad /\ [][Restart]_vars

\* the entries of the file that are objects whose "moves", if any, is a list
WellFormedEntries ==
    {m \in dataFile.obj :
        m[2].isdict /\ ("moves" \in DOMAIN m[2] => m[2].islist)}

\* C26: after a load the store is empty when the file is missing or does not
\* parse; for a file that parses to an object the store has exactly the keys
\* of the well-formed entries, each with the records of its entry in the
\* file's order, and no key of a malformed entry.
C26_LoadSkipsMalformedEntries ==
    lastOp.op = "restart"
      => /\ dataFile.kind \in {"missing", "truncated"} => store = EmptyStore
         /\ dataFile.kind = "json"
              => /\ DOMAIN store = {m[1] : m \in WellFormedEntries}
                 /\ \A m \in WellFormedEntries :
                        store[m[1]].moves
                          = (IF "moves" \in DOMAIN m[2] THEN m[2].moves ELSE <<>>)

\* a file with a value that is no object, an object whose moves is no list
\* and a day of two records: only the day is loaded
C26_Witness ==
    /\ lastOp.op = "restart"
    /\ dataFile.kind = "json"
    /\ \E m \in dataFile.obj : ~m[2].isdict
    /\ \E m \in dataFile.obj : m[2].isdict /\ "moves" \in DOMAIN m[2] /\ ~m[2].islist
    /\ DOMAIN store = {date_to_str(StartDay)}
    /\ Len(store[date_to_str(StartDay)].moves) = 2


(***************************************************************************)
(* The threads of the process, statement by statement: the event loop      *)
(* runs kaiten_webhook, /test_report and /stats one at a time (none of     *)
(* them awaits after the request is read); auto_send_daily_reports and the *)
(* monthly loop are threads of their own (app.py 760, monthly_reports.py   *)
(* 548).  pin.lock is the holder of data_lock, pin.wh the position of the  *)
(* webhook call inside `with data_lock:` (app.py 543-548) and inside       *)
(* save_store (349-369), pin.old the durable file when the call began.     *)
(***************************************************************************)
MaxLockMoves == 2
MaxLockDays == 1

\* json.dump into the temporary file: the durable file is not touched
WriteTemp_in_place(file) == [kind |-> "truncated", obj |-> {}, tmp |-> FALSE]

WriteTemp(file) == [file EXCEPT !.tmp = TRUE]

InitThreads ==
    /\ today = StartDay + 1
    /\ tnow = 0
    /\ retention = 0
    /\ holidays = {}
    /\ store = EmptyStore
    /\ dataFile = MissingFile
    /\ aggrFile = <<>>
    /\ stateFile = <<>>
    /\ response = "none"
    /\ sent = <<>>
    /\ lastOp = [op |-> "init"]
    /\ pin = [lock |-> "free", wh |-> "idle", old |-> MissingFile]
    /\ pout = EmptyStore

WhStep(at) ==
    /\ lastOp' = [op |-> "webhook_step", at |-> at]
    /\ UNCHANGED <<today, retention, holidays, aggrFile, stateFile, response, sent, pout>>

\* a stored notification arrives; `with data_lock:` is entered
WhEnter ==
    /\ tnow < MaxLockMoves
    /\ pin.wh = "idle"
    /\ pin.lock = "free"
    /\ pin' = [lock |-> "webhook", wh |-> "locked", old |-> dataFile]
    /\ WhStep("enter")
    /\ UNCHANGED <<tnow, store, dataFile>>

\* store.setdefault(...)["moves"].append(move_record)
WhAppend ==
    /\ pin.wh = "locked"
    /\ store' = Append_move(store, date_to_str(today),
                            move_record(Move101(JInt(5485743), JInt(5474973)), today, tnow))
    /\ tnow' = tnow + 1
    /\ pin' = [pin EXCEPT !.wh = "appended"]
    /\ WhStep("append")
    /\ UNCHANGED dataFile

\* _prune_old_dates(store_data) inside save_store
WhPrune ==
    /\ pin.wh = "appended"
    /\ store' = PruneOldDates(store, today, retention)
    /\ pin' = [pin EXCEPT !.wh = "pruned"]
    /\ WhStep("prune")
    /\ UNCHANGED <<tnow, dataFile>>

\* json.dump into the temporary file, or its failure and the except branch
WhWrite ==
    \E raised \in BOOLEAN :
        /\ pin.wh = "pruned"
        /\ dataFile' = IF raised THEN AfterFailedSave(dataFile, "write")
                       ELSE WriteTemp(dataFile)
        /\ pin' = IF raised THEN [pin EXCEPT !.wh = "idle", !.lock = "free"]
                  ELSE [pin EXCEPT !.wh = "written"]
        /\ WhStep("write")
        /\ UNCHANGED <<tnow, store>>

\* tmp.replace(path), or its failure and the except branch; the with block
\* ends
WhReplace ==
    \E raised \in BOOLEAN :
        /\ pin.wh = "written"
        /\ dataFile' = IF raised THEN AfterFailedSave(dataFile, "replace")
                       ELSE FileOf(store)
        /\ pin' = [pin EXCEPT !.wh = "idle", !.lock = "free"]
        /\ WhStep("replace")
        /\ UNCHANGED <<tnow, store>>

\* the daily loop's wake, in its own thread
ThreadDailyWake == DailyWake

\* GET /test_report, on the event loop
LoopTestReport ==
    /\ pin.wh = "idle"
    /\ TestReport

\* GET /stats, on the event loop: `with data_lock:` around the read
Stats ==
    /\ pin.wh = "idle"
    /\ pin.lock = "free"
    /\ response' = [total_dates |-> Cardinality(DOMAIN store)]
    /\ lastOp' = [op |-> "stats"]
    /\ UNCHANGED <<today, tnow, retention, holidays, store, dataFile, aggrFile,
                   stateFile, sent, pin, pout>>

\* store = load_store_func() of the monthly loop, in its own thread
MonthlyLoad ==
    /\ pout' = load_store(dataFile)
    /\ lastOp' = [op |-> "monthly_load"]
    /\ UNCHANGED <<today, tnow, retention, holidays, store, dataFile, aggrFile,
                   stateFile, response, sent, pin>>

\* midnight
ThreadsTick ==
    /\ today < StartDay + 1 + MaxLockDays
    /\ Tick

NextThreads ==
    \/ WhEnter \/ WhAppend \/ WhPrune \/ WhWrite \/ WhReplace
    \/ ThreadDailyWake \/ LoopTestReport \/ Stats \/ MonthlyLoad \/ ThreadsTick

SpecThreads == InitThreads /\ [][NextThreads]_vars

\* C27: a report read (the daily report, /test_report, the monthly loop's
\* load) never happens while a webhook call is between its append and the
\* end of its persist, data_lock being held by that call.
C27_ReportReadsOutsideCriticalSection ==
    (\/ lastOp.op = "daily" /\ ~lastOp.skipped
     \/ lastOp.op = "test_report"
     \/ lastOp.op = "monthly_load")
      => pin.lock = "free"

\* a webhook call is inside save_store, between the prune and the rename
PersistRunning == pin.wh \in {"pruned", "written"}

\* C28: what the monthly loop loads from the durable file while a persist
\* runs is the complete content the file had before the persist or the
\* complete content the persist writes, and the file it reads is never a
\* partly written one.
C28_ReaderSeesOldOrNew ==
    lastOp.op = "monthly_load"
      => /\ dataFile.kind \in {"missing", "json"}
         /\ PersistRunning
              => \/ pout = load_store(pin.old)
                 \/ pout = load_store(FileOf(store))
         /\ ~PersistRunning => pout = load_store(dataFile)

\* the temporary file is written, the rename has not happened: the loop
\* loads the previous content, which lacks the record being persisted
C28_Witness ==
    /\ lastOp.op = "monthly_load"
    /\ pin.wh = "written"
    /\ dataFile.tmp
    /\ pin.old.kind = "json"
    /\ pout = load_store(pin.old)
    /\ pout # store
    /\ DOMAIN pout # {}


(***************************************************************************)
(* The effect of one stored notification on the buckets (app.py 523-548).  *)
(***************************************************************************)
\* the records of day k in store st, none if the day has no bucket
RecordsOfDay(st, k) == IF k \in DOMAIN st THEN st[k].moves ELSE <<>>

CompletedCards == {m.card_id : m \in TerminalMovesInPeriod}

\* the terminal move of card c in the period that is later than its others
LatestTerminalMove(c) ==
    CHOOSE m \in TerminalMovesInPeriod :
        /\ m.card_id = c
        /\ \A o \in TerminalMovesInPeriod :
               (o.card_id = c /\ o # m) =>
                   (o.timestamp[1] < m.timestamp[1]
                    \/ (o.timestamp[1] = m.timestamp[1] /\ o.timestamp[2] < m.timestamp[2]))

\* the number of cards of kind who whose latest terminal move enters one of cols
CardsEnding(cols, who) ==
    Cardinality({c \in CompletedCards :
                   /\ LatestTerminalMove(c).to_column_id \in cols
                   /\ Who(CompletedRec(LatestTerminalMove(c))) = who})

\* C30: every card with terminal moves in the period is counted once, under
\* the outcome of its latest terminal move: the positive cells count the
\* cards whose latest terminal move enters the positive column, the refusal
\* cells those whose latest enters the refusal column, and the totals all of
\* them; moves into other columns count nowhere.
C30_LatestTerminalMoveOnly ==
    lastOp.op = "stats" =>
        \A who \in {"phys", "jur"} :
            /\ pout.positive[who] = CardsEnding({5474978}, who)
            /\ pout.refusals[who] = CardsEnding({5474969}, who)
            /\ pout.accepted_total[who] = CardsEnding({5474978, 5474969}, who)
            /\ pout.services_total[who] = CardsEnding({5474978, 5474969}, who)

\* card 101 entered the refusal column and later the positive one, and a move
\* into a non-terminal column lies in the period: one positive, no refusal
C30_Witness ==
    /\ lastOp.op = "stats"
    /\ \E m, o \in TerminalMovesInPeriod :
           /\ m.card_id = "101" /\ o.card_id = "101"
           /\ o.to_column_id = 5474969 /\ m.to_column_id = 5474978
           /\ m = LatestTerminalMove("101")
    /\ \E k \in DOMAIN store : \E i \in DOMAIN store[k].moves :
           /\ StrpDate(k) \in pin.start .. pin.end
           /\ store[k].moves[i].to_column_id = 5485743
    /\ pout.positive = [phys |-> 1, jur |-> 0]
    /\ pout.refusals = [phys |-> 0, jur |-> 0]
    /\ pout.accepted_total = [phys |-> 1, jur |-> 0]


(***************************************************************************)
(* Builds over an aggregates file that already holds the built month and   *)
(* another one (monthly_reports.py 416-424).  pin keeps the file the       *)
(* process found.                                                          *)
(***************************************************************************)
AggrFilesWithBoth ==
    { ("2025-11" :> TableOf(<<Move103(JInt(5474978))>>))
        @@ ("2025-12" :> TableOf(<<Move103(JInt(5474969)), Move102(JInt(5474978), Absent)>>)),
      ("2025-12" :> TableOf(<<Move103(JInt(5474978))>>))
        @@ ("2026-01" :> TableOf(<<Move101(JInt(5474969), Absent)>>)) }

\* 1 January 2026, the first workday of its month
InitAggr ==
    /\ today = StartDay + 2
    /\ tnow = 0
    /\ retention = 0
    /\ holidays = {}
    /\ dataFile \in MonthlyDataFiles
    /\ store = load_store(dataFile)
    /\ aggrFile \in AggrFilesWithBoth
    /\ stateFile = <<>>
    /\ response = "none"
    /\ sent = <<>>
    /\ lastOp = [op |-> "init"]
    /\ pin = [aggr |-> aggrFile]
    /\ pout = NoPure

SpecAggr == InitAggr /\ [][MonthlyWake \/ CliReport]_vars

\* C31: a build that saves month M leaves under M's key exactly the table
\* computed for M, and under every other key the table that was there; no
\* key is added or removed besides M's.
C31_ReplacesOnlyItsMonth ==
    [][(lastOp'.op \in {"monthly", "cli"} /\ lastOp'.built)
         => /\ DOMAIN aggrFile' = DOMAIN aggrFile \cup {lastOp'.key}
            /\ aggrFile'[lastOp'.key] = pout'.month_stats
            /\ \A k \in DOMAIN aggrFile \ {lastOp'.key} : aggrFile'[k] = aggrFile[k]]_vars

\* December 2025 is rebuilt over a file that held another table for it:
\* nothing of the old table is left and the other month's table is intact
C31_Witness ==
    /\ lastOp.op = "monthly"
    /\ lastOp.built
    /\ lastOp.key = "2025-12"
    /\ pin.aggr["2025-12"].accepted_total.jur >= 1
    /\ aggrFile["2025-12"] = pout.month_stats
    /\ aggrFile["2025-12"].accepted_total.jur = 0
    /\ aggrFile["2025-12"].accepted_total.phys >= 1
    /\ aggrFile["2025-12"] # pin.aggr["2025-12"]
    /\ "2025-11" \in DOMAIN aggrFile
    /\ aggrFile["2025-11"] = pin.aggr["2025-11"]
    /\ aggrFile["2025-11"].accepted_total.jur >= 1


(***************************************************************************)
(* The daily loop with the time of day (app.py 663-691).  tnow is 0 before *)
(* 08:35 of today and 1 from 08:35 on; pin.target is the day whose 08:35   *)
(* the sleep aims at.                                                      *)
(***************************************************************************)
MaxDailySends == 2

\* target = now.replace(hour=8, minute=35, ...) with no step to the next day
SleepTarget_same_day(d, tod) == d

\* target = now.replace(hour=8, minute=35, ...); if now >= target: target += 1 day
SleepTarget(d, tod) == IF tod = 0 THEN d ELSE d + 1

InitDailyClock ==
    /\ today \in DailyStartDays
    /\ tnow \in {0, 1}
    /\ retention = 0
    /\ holidays \in {{}, {"2026-01-02"}}
    /\ store = (date_to_str(Jan1 + 1)
                  :> BucketOf(<<Move101(JInt(5485743), JInt(5474973))>>, Jan1 + 1))
    /\ dataFile = FileOf(store)
    /\ aggrFile = <<>>
    /\ stateFile = <<>>
    /\ response = "none"
    /\ sent = <<>>
    /\ lastOp = [op |-> "init"]
    /\ pin = [began |-> today, target |-> today]
    /\ pout = NoPure

\* the top of an iteration: the target is computed and the sleep begins
ClockSleep ==
    /\ lastOp.op \in {"init", "daily"}
    /\ Len(sent) < MaxDailySends
    /\ pin' = [began |-> today, target |-> SleepTarget(today, tnow)]
    /\ lastOp' = [op |-> "daily_sleep"]
    /\ UNCHANGED <<today, tnow, retention, holidays, store, dataFile, aggrFile,
                   stateFile, response, sent, pout>>

\* 08:35 or midnight passes while the thread sleeps
ClockPasses ==
    /\ lastOp.op \in {"daily_sleep", "time"}
    /\ today < pin.target + MaxOversleep
    /\ IF tnow = 0 THEN tnow' = 1 /\ today' = today
       ELSE tnow' = 0 /\ today' = today + 1
    /\ lastOp' = [op |-> "time"]
    /\ UNCHANGED <<retention, holidays, store, dataFile, aggrFile, stateFile,
                   response, sent, pin, pout>>

\* the clock has reached 08:35 of day d
Reached(d) == today > d \/ (today = d /\ tnow = 1)

\* time.sleep returns, not before the target; the rest of the iteration runs
ClockWake ==
    /\ lastOp.op \in {"daily_sleep", "time"}
    /\ Reached(pin.target)
    /\ DailyWakeUpTo(MaxDailySends)

SpecDailyClock == InitDailyClock /\ [][ClockSleep \/ ClockPasses \/ ClockWake]_vars

\* C32: a wake of the daily loop happens only out of a sleep and not before
\* its target; the sleep that follows an attempt aims at a target later than
\* the attempt's target and not yet reached, so no target sees two attempts;
\* a failed send changes nothing but the log of attempts; and every attempt
\* reports the nearest working day before its own wake date.
C32_OneAttemptPerTarget ==
    [][/\ lastOp'.op = "daily"
            => /\ lastOp.op \in {"daily_sleep", "time"}
               /\ Reached(pin.target)
               /\ UNCHANGED <<today, tnow, retention, holidays, store, dataFile,
                              aggrFile, stateFile, response, pin, pout>>
               /\ ~lastOp'.skipped
                    => /\ lastOp'.date_str = date_to_str(NearestEarlierWorkingDay(today))
                       /\ sent' = Append(sent, SendEntry("daily", "text", lastOp'.date_str,
                                                         lastOp'.ok))
               /\ lastOp'.skipped => sent' = sent
       /\ (lastOp.op = "daily" /\ lastOp'.op = "daily_sleep")
            => /\ pin'.target > pin.target
               /\ ~Reached(pin'.target)
       /\ lastOp.op = "daily" => lastOp'.op = "daily_sleep"]_vars

\* a failed attempt for one date, then an attempt at a later target for
\* another date
C32_Witness ==
    /\ lastOp.op = "daily"
    /\ Len(sent) = 2
    /\ ~sent[1].ok
    /\ sent[1].key = "2026-01-01"
    /\ sent[2].key = "2026-01-02"
    /\ today = Jan1 + 4


(***************************************************************************)
(* Destinations that int() accepts or refuses (app.py 511-517).            *)
(***************************************************************************)
CoerceInputs ==
    { Move101(JInt(5485743), JInt(5474973)),
      Move102(JStr("5474978"), JInt(5577161)),
      Move102(JStr("abc"), JInt(5474973)),
      Move102(Null, Absent) }

CoerceIngest ==
    /\ Ingest
    /\ lastOp'.req \in CoerceInputs
    /\ lastOp'.fail = "none"

SpecCoerce == Init /\ [][CoerceIngest \/ Tick]_vars

\* n is a card:update with a column change and an identity whose destination
\* is neither a JSON integer nor the decimal text of one
UncoercibleDestination(n) ==
    /\ n.parsed /\ n.event = "card:update" /\ n.new_col.t # "absent"
    /\ ~NoIdentity(n)
    /\ n.new_col.t # "int"
    /\ ~(n.new_col.t = "str" /\ n.new_col.s \in {"5474978", "5485743"})

\* C33: a notification that is valid but for a destination int() refuses
\* leaves the store and the file unchanged and is answered with success;
\* every record a call appends has an integer destination.
C33_UncoercibleIsDropped ==
    [][lastOp'.op = "webhook"
         => /\ UncoercibleDestination(lastOp'.req)
                 => (store' = store /\ dataFile' = dataFile /\ response' = Ack)
            /\ \A rec \in RecordsOf(store') \ RecordsOf(store) :
                   rec.to_column_id \in Int]_vars

\* the destination "abc" is dropped after a destination "5474978" was stored
\* as the integer 5474978
C33_Witness ==
    /\ WebhookStep
    /\ lastOp.req = Move102(JStr("abc"), JInt(5474973))
    /\ response = Ack
    /\ store = lastOp.prev
    /\ \E rec \in RecordsOf(store) : rec.card_id = "102" /\ rec.to_column_id = 5474978


\* C34: every record the in-memory store holds for the month of a monthly
\* roll-up, durably saved or not, is among the records the roll-up was built
\* from.
C34_MonthlyBuildReadsMemory ==
    (lastOp.op = "monthly" /\ lastOp.built)
      => \A b \in MonthBuckets(store, pout.key) :
             \A i \in DOMAIN b[2] :
                 \E c \in pout.moves :
                     c[1] = b[1] /\ \E j \in DOMAIN c[2] : c[2][j] = b[2][i]


(***************************************************************************)
(* Notifications that carry a timestamp of their own (data.updated), which *)
(* the handler does not read (app.py 523-548).                             *)
(***************************************************************************)
MaxArrivalMoves == 2

\* the event says it happened on the day before the first day, or on it
StampedInputs ==
    { [updated |-> <<StartDay - 1 + back, 0>>] @@ n :
        back \in {0, 1},
        n \in {Move101(JInt(5485743), JInt(5474973)), Move102(JInt(5577124), Absent)} }

StampedIngest ==
    \E n \in StampedInputs, cross \in {0, 1} :
        /\ tnow < MaxArrivalMoves
        /\ today + cross <= StartDay + MaxDays
        /\ \E r \in {kaiten_webhook(n, store, dataFile, today, tnow, today + cross,
                                     retention, "none")} :
               /\ store' = r.store
               /\ dataFile' = r.file
               /\ response' = r.response
        /\ today' = today + cross
        /\ tnow' = tnow + 1
        /\ lastOp' = [op |-> "webhook", req |-> n, fail |-> "none",
                      prev |-> store, day |-> today, instant |-> tnow,
                      pruneDate |-> today + cross]
        /\ UNCHANGED <<retention, holidays, aggrFile, stateFile, sent, pin, pout>>

SpecArrival == Init /\ [][StampedIngest \/ Tick]_vars

\* C35: every record of the store lies in the bucket named by the date of its
\* own timestamp, and the timestamp of a record a call appends is the date
\* and instant the handler read from the clock, whatever the event carries.
C35_BucketIsArrivalDate ==
    [][lastOp'.op = "webhook"
         => /\ \A k \in DOMAIN store' : \A i \in DOMAIN store'[k].moves :
                   k = date_to_str(store'[k].moves[i].timestamp[1])
            /\ \A rec \in RecordsOf(store') \ RecordsOf(store) :
                   rec.timestamp = <<today, tnow>>]_vars

\* an event stamped 2025-12-29 is processed on 2025-12-31 and filed there
C35_Witness ==
    /\ WebhookStep
    /\ lastOp.req.updated[1] = StartDay - 1
    /\ lastOp.day = StartDay + 1
    /\ DOMAIN store = {"2025-12-30", "2025-12-31"}
    /\ store["2025-12-31"].moves[1].timestamp[1] = StartDay + 1


(***************************************************************************)
(* compute_month_like_stats over stores whose records carry any channel    *)
(* label, as a loaded file may hold them (monthly_reports.py 173-194,      *)
(* 236-281).                                                               *)
(***************************************************************************)
MaxTableBucket == 2

TableLabels == {"EPGU", "MFC", "RPGU", "ID:7"}

\* a record of card c entering column col with channel label subm
TableRecord(c, col, subm, i) ==
    [card_id |-> c,
     person_type |-> IF c = "101" THEN "Fizicheskoe litso" ELSE "Yuridicheskoe litso",
     submission_method |-> subm,
     from_column_id |-> 0,
     to_column_id |-> col,
     timestamp |-> <<StartDay, i>>]

TableChoices == {"101", "102"} \X {5474978, 5474969, 5485743} \X TableLabels

InitTable ==
    /\ InitIdle
    /\ \E f \in SeqsUpTo(TableChoices, MaxTableBucket) :
           store = (date_to_str(StartDay)
                      :> [moves |-> [i \in DOMAIN f |->
                                       TableRecord(f[i][1], f[i][2], f[i][3], i)]])
    /\ pin = [start |-> Dec1, end |-> Dec31]

SpecTable == InitTable /\ [][MonthStats]_vars

\* the sum of the channel cells of table t for applicant kind who
ChannelSum(t, who) ==
    t.accepted_by_method["EPGU"][who] + t.accepted_by_method["MFC"][who]
      + t.accepted_by_method["Lichnyj priyom"][who] + t.accepted_by_method["RPGU"][who]

\* a retained unit of kind who has a channel label that normalizes to RPGU
SomeUnitViaRpgu(who) ==
    \E c \in CompletedCards :
        /\ Who(CompletedRec(LatestTerminalMove(c))) = who
        /\ Contains(LatestTerminalMove(c).submission_method, "RPGU")

\* C36: in every table of compute_month_like_stats, for each applicant kind,
\* services_total = positive + refusals = accepted_total, suspended and the
\* RPGU cell are 0, and the channel cells sum to at most accepted_total, to
\* exactly accepted_total when no retained unit's channel is RPGU.
C36_TableIdentities ==
    lastOp.op = "stats" =>
        \A who \in {"phys", "jur"} :
            /\ pout.services_total[who] = pout.positive[who] + pout.refusals[who]
            /\ pout.services_total[who] = pout.accepted_total[who]
            /\ pout.suspended[who] = 0
            /\ pout.accepted_by_method["RPGU"][who] = 0
            /\ ChannelSum(pout, who) <= pout.accepted_total[who]
            /\ ~SomeUnitViaRpgu(who) => ChannelSum(pout, who) = pout.accepted_total[who]

\* a physical applicant's unit through RPGU and a legal applicant's unit
\* through another channel: both accepted, only the second in a channel cell
C36_Witness ==
    /\ lastOp.op = "stats"
    /\ SomeUnitViaRpgu("phys")
    /\ pout.accepted_total = [phys |-> 1, jur |-> 1]
    /\ ChannelSum(pout, "phys") = 0
    /\ ChannelSum(pout, "jur") = 1
    /\ pout.accepted_by_method["RPGU"] = [phys |-> 0, jur |-> 0]


\* the records of the days of file f
RecordsOfFile(f) ==
    UNION {{m[2].moves[i] : i \in DOMAIN m[2].moves} : m \in f.obj}

\* C37: the content of the file changes only in a webhook call whose save
\* succeeded, and then it holds exactly the store as that call left it: the same days with
\* the same records, no day older than the retention cutoff of that save and
\* no record the store does not hold.
C37_FileEqualsPrunedStore ==
    [][/\ (dataFile'.kind # dataFile.kind \/ dataFile'.obj # dataFile.obj)
            => (lastOp'.op = "webhook" /\ lastOp'.fail = "none")
       /\ (lastOp'.op = "webhook" /\ Disposition(lastOp'.req) = "store"
             /\ lastOp'.fail = "none")
            => /\ dataFile'.kind = "json"
               /\ {m[1] : m \in dataFile'.obj} = DOMAIN store'
               /\ \A m \in dataFile'.obj : m[2].moves = store'[m[1]].moves
               /\ \A m \in dataFile'.obj :
                      ~(StrpOk(m[1]) /\ StrpDate(m[1]) < lastOp'.pruneDate - retention)
               /\ RecordsOfFile(dataFile') \subseteq RecordsOf(store')]_vars

\* a save on 2025-12-31 with a retention of 0 days, over a file that held
\* 2025-12-30: the file holds 2025-12-31 alone, as the store does
C37_Witness ==
    /\ SavedOk
    /\ retention = 0
    /\ "2025-12-30" \in DOMAIN lastOp.prev
    /\ lastOp.pruneDate = StartDay + 1
    /\ {m[1] : m \in dataFile.obj} = {"2025-12-31"}
    /\ DOMAIN store = {"2025-12-31"}
    /\ RecordsOfFile(dataFile) = RecordsOf(store)


\* C38 as stated: the record a webhook call appends is among the records of
\* the store when the call returns, whatever the retention and whether or
\* not midnight passes between the handler's clock read and the prune's.
C38_AppendSurvivesOwnPrune ==
    (lastOp.op = "webhook" /\ Disposition(lastOp.req) = "store")
      => move_record(lastOp.req, lastOp.day, lastOp.instant) \in RecordsOf(store)


\* the aggregates file a holds, under month key, the table of build po
HoldsBuiltTable(a, key, po) ==
    /\ po # NoPure
    /\ po.key = key
    /\ key \in DOMAIN a
    /\ a[key] = po.month_stats

\* C39: an iteration of the monthly loop that attempts a notification has
\* written the month's table to the aggregates file, and an iteration whose
\* upload failed leaves that table in the aggregates file and the guard file
\* as it was.
C39_AggregatesBeforeSends ==
    [][(lastOp'.op = "monthly")
         => /\ sent' # sent
                 => /\ lastOp'.wroteAggr
                    /\ HoldsBuiltTable(aggrFile', lastOp'.key, pout')
            /\ lastOp'.outcome = "build_raised"
                 => (sent' = sent /\ aggrFile' = aggrFile)
            /\ lastOp'.outcome = "send_failed"
                 => /\ sent' # sent
                    /\ HoldsBuiltTable(aggrFile', lastOp'.key, pout')
                    /\ stateFile' = stateFile]_vars

\* the upload for 2025-12 failed: the aggregates hold the table built from a
\* non-empty month, not the table an earlier build left, and no month is
\* recorded as sent
C39_Witness ==
    /\ lastOp.op = "monthly"
    /\ lastOp.outcome = "send_failed"
    /\ lastOp.key = "2025-12"
    /\ HoldsBuiltTable(aggrFile, "2025-12", pout)
    /\ pout.moves # {}
    /\ aggrFile["2025-12"] # TableOf(<<Move103(JInt(5474978))>>)
    /\ stateFile = <<>>


\* the step is an iteration of the monthly loop whose text notice returned t
\* and whose document upload returned d
MonthlySends(t, d) ==
    /\ lastOp'.op = "monthly"
    /\ sent' = sent \o <<SendEntry("monthly", "text", lastOp'.key, t),
                         SendEntry("monthly", "document", lastOp'.key, d)>>

\* the guard file f names month key as sent
GuardNames(f, key) ==
    "last_sent" \in DOMAIN f /\ f["last_sent"] = key

\* C40 as stated: an iteration that attempts the sends leaves the guard
\* naming its month exactly if the upload returned success, whatever the
\* text notice returned.
C40_GuardIffUploadSucceeded ==
    [][\A t, d \in BOOLEAN :
          MonthlySends(t, d) => (GuardNames(stateFile', lastOp'.key) <=> d)]_vars

\* C40, amended: an iteration that attempts the sends leaves the guard naming
\* its month exactly if the upload returned success and save_state did not
\* raise, whatever the text notice returned; otherwise the guard file is as
\* it was.
C40_GuardIffUploadSucceededAndSaved ==
    [][\A t, d \in BOOLEAN :
          MonthlySends(t, d)
            => /\ GuardNames(stateFile', lastOp'.key)
                    <=> (d /\ lastOp'.outcome # "guard_raised")
               /\ ~GuardNames(stateFile', lastOp'.key) => stateFile' = stateFile
               /\ ~GuardNames(stateFile, lastOp'.key)]_vars

\* for 2025-12: an iteration whose text notice went out and whose upload
\* failed, then one whose text notice failed and whose upload succeeded, and
\* the guard names 2025-12
C40_Witness ==
    /\ sent = <<SendEntry("monthly", "text", "2025-12", TRUE),
                SendEntry("monthly", "document", "2025-12", FALSE),
                SendEntry("monthly", "text", "2025-12", FALSE),
                SendEntry("monthly", "document", "2025-12", TRUE)>>
    /\ lastOp.op = "monthly"
    /\ lastOp.outcome = "sent"
    /\ GuardNames(stateFile, "2025-12")
====
